---- MODULE Spec2Model ----
(***************************************************************************)
(* Model of the review-aggregation engine (packages/core).                 *)
(*                                                                         *)
(* Conventions                                                             *)
(*  - A string is a sequence of one-character strings, so that trim,       *)
(*    startsWith, includes and indexOf are computed and not assumed.       *)
(*  - An optional value (x?: T) is a sequence of length 0 (undefined) or 1.*)
(*  - A confidence score is counted in tenths: 5 stands for 0.5.           *)
(***************************************************************************)
EXTENDS Integers, Sequences, FiniteSets, TLC

(***************************************************************************)
(* Bounds of the model.                                                    *)
(***************************************************************************)
MaxFiles == 3
MaxPrev == 1

None == <<>>
Some(v) == <<v>>
IsDefined(o) == Len(o) > 0
Val(o) == o[1]

(***************************************************************************)
(* String helpers (JavaScript String methods used by the code).            *)
(***************************************************************************)
IsSpace(ch) == ch \in {" ", "\n", "\r", "\t"}

RECURSIVE TrimStart(_)
TrimStart(s) ==
  IF Len(s) > 0 /\ IsSpace(s[1]) THEN TrimStart(Tail(s)) ELSE s

RECURSIVE TrimEnd(_)
TrimEnd(s) ==
  IF Len(s) > 0 /\ IsSpace(s[Len(s)]) THEN TrimEnd(SubSeq(s, 1, Len(s) - 1)) ELSE s

\* String.prototype.trim
Trim(s) == TrimEnd(TrimStart(s))

\* s.startsWith(p)
StartsWith(s, p) == Len(s) >= Len(p) /\ SubSeq(s, 1, Len(p)) = p

\* s.indexOf(t), 0-based, -1 when t does not occur
IndexOf(s, t) ==
  LET hits == {i \in 0..(Len(s) - Len(t)) : SubSeq(s, i + 1, i + Len(t)) = t}
  IN IF hits = {} THEN -1 ELSE CHOOSE i \in hits : \A j \in hits : i <= j

\* s.includes(t)
Includes(s, t) == IndexOf(s, t) >= 0

IsNewline(ch) == ch \in {"\n", "\r"}

\* s.split(/[\r\n]+/): the pieces between maximal runs of line breaks
RECURSIVE SplitLinesFrom(_, _, _)
SplitLinesFrom(s, i, cur) ==
  IF i > Len(s) THEN <<cur>>
  ELSE IF IsNewline(s[i])
       THEN IF i > 1 /\ IsNewline(s[i - 1])
            THEN SplitLinesFrom(s, i + 1, cur)
            ELSE <<cur>> \o SplitLinesFrom(s, i + 1, <<>>)
       ELSE SplitLinesFrom(s, i + 1, Append(cur, s[i]))

SplitLines(s) == SplitLinesFrom(s, 1, <<>>)

Abs(n) == IF n < 0 THEN -n ELSE n

RECURSIVE Flatten(_)
Flatten(xss) ==
  IF xss = <<>> THEN <<>> ELSE Head(xss) \o Flatten(Tail(xss))

Range(s) == {s[i] : i \in 1..Len(s)}

(***************************************************************************)
(* sanitize/commentLocator.ts: fixThreadPositions.                         *)
(* A parsed diff (the result of parse-git-diff) is                         *)
(*   [files |-> << [chunks |-> << [changes |-> << change, ... >>] >>] >>]  *)
(* and a change is [type, content, lineBefore and/or lineAfter].           *)
(***************************************************************************)
getChangesFromDiff(diff) ==
  IF Len(diff.files) = 0 THEN <<>>
  ELSE Flatten([k \in 1..Len(diff.files[1].chunks) |->
                  IF "changes" \in DOMAIN diff.files[1].chunks[k]
                  THEN diff.files[1].chunks[k].changes ELSE <<>>])

SideType(shouldSearchRightSide) ==
  IF shouldSearchRightSide THEN "AddedLine" ELSE "DeletedLine"

filterChanges(changes, searchText, shouldSearchRightSide) ==
  SelectSeq(changes,
            LAMBDA change :
              /\ Includes(change.content, searchText)
              /\ (change.type = "UnchangedLine" \/ change.type = SideType(shouldSearchRightSide)))

getLineNumber(diffLineMeta, isRightSide) ==
  IF isRightSide THEN diffLineMeta.lineAfter ELSE diffLineMeta.lineBefore

RECURSIVE ReduceClosestKeepingLast(_, _, _, _, _)
\* ReduceClosest as it would be if a line at the same distance replaced the
\* one kept so far
ReduceClosestKeepingLast(lines, i, previous, originalLineNumber, isRightSide) ==
  IF i > Len(lines) THEN previous
  ELSE ReduceClosestKeepingLast(lines, i + 1,
         IF Abs(getLineNumber(lines[i], isRightSide) - originalLineNumber)
              <= Abs(getLineNumber(previous, isRightSide) - originalLineNumber)
         THEN lines[i] ELSE previous,
         originalLineNumber, isRightSide)

RECURSIVE ReduceClosest(_, _, _, _, _)
\* lines.reduce(..., lines[0]): the callback is applied to every element
ReduceClosest(lines, i, previous, originalLineNumber, isRightSide) ==
  IF i > Len(lines) THEN previous
  ELSE ReduceClosest(lines, i + 1,
         IF Abs(getLineNumber(lines[i], isRightSide) - originalLineNumber)
              < Abs(getLineNumber(previous, isRightSide) - originalLineNumber)
         THEN lines[i] ELSE previous,
         originalLineNumber, isRightSide)

\* None when there is no candidate line
findClosestLine(lines, originalLineNumber, shouldSearchRightSide) ==
  IF Len(lines) = 0 THEN None
  ELSE Some(ReduceClosest(lines, 1, lines[1], originalLineNumber, shouldSearchRightSide))

getGitDiffLine(diff, searchText, originalLineNumber, shouldSearchRightSide) ==
  findClosestLine(filterChanges(getChangesFromDiff(diff), searchText, shouldSearchRightSide),
                  originalLineNumber, shouldSearchRightSide)

\* Lines 68-73, for the line getGitDiffLine returned (None: no line).
\* None stands for {lineNumber: undefined, offset: undefined}
LineNumberAndOffsetOf(line, searchText, shouldSearchRightSide) ==
  IF ~IsDefined(line) THEN None
  ELSE Some([lineNumber |-> getLineNumber(Val(line), shouldSearchRightSide),
             offset |-> IndexOf(Val(line).content, searchText) + 1])

getLineNumberAndOffset(parsedDiff, searchText, originalLineNumber, shouldSearchRightSide) ==
  LineNumberAndOffsetOf(
    getGitDiffLine(parsedDiff, searchText, originalLineNumber, shouldSearchRightSide),
    searchText, shouldSearchRightSide)

\* Lines 54-58, for the result of the search for the last snippet line
MoveEndToLast(fileEnd, found, snippetLast) ==
  IF ~IsDefined(found) THEN fileEnd
  ELSE [fileEnd EXCEPT !.line = Val(found).lineNumber,
                       !.offset = Val(found).offset + Len(snippetLast)]

\* fileEnd is the end position after updateFileStartAndEnd has moved it
updateFileEndForMultilineSnippet(fileEnd, snippets, parsedDiff, isRightSide) ==
  MoveEndToLast(fileEnd,
                getLineNumberAndOffset(parsedDiff, snippets[Len(snippets)],
                                       fileEnd.line, isRightSide),
                snippets[Len(snippets)])

\* MoveEnd as it would be if the length of a one-line snippet were added to
\* the offset the end position already has
MoveEndAddsToOffset(fileEnd, found, snippets, parsedDiff, isRightSide) ==
  IF Len(snippets) > 1
  THEN updateFileEndForMultilineSnippet(
         [fileEnd EXCEPT !.line = found.lineNumber,
                         !.offset = found.offset + Len(snippets[1])],
         snippets, parsedDiff, isRightSide)
  ELSE [fileEnd EXCEPT !.line = found.lineNumber,
                       !.offset = fileEnd.offset + Len(snippets[1])]

\* MoveEnd as it would be if the last snippet line were searched from the
\* line the end position had when it was supplied
MoveEndSearchingFromSuppliedEnd(fileEnd, found, snippets, parsedDiff, isRightSide) ==
  IF Len(snippets) > 1
  THEN MoveEndToLast([fileEnd EXCEPT !.line = found.lineNumber,
                                     !.offset = found.offset + Len(snippets[1])],
                     getLineNumberAndOffset(parsedDiff, snippets[Len(snippets)],
                                            fileEnd.line, isRightSide),
                     snippets[Len(snippets)])
  ELSE [fileEnd EXCEPT !.line = found.lineNumber,
                       !.offset = found.offset + Len(snippets[1])]

\* Lines 38-43: the end position follows the start, then the last snippet line
MoveEnd(fileEnd, found, snippets, parsedDiff, isRightSide) ==
  IF Len(snippets) > 1
  THEN updateFileEndForMultilineSnippet(
         [fileEnd EXCEPT !.line = found.lineNumber,
                         !.offset = found.offset + Len(snippets[1])],
         snippets, parsedDiff, isRightSide)
  ELSE [fileEnd EXCEPT !.line = found.lineNumber,
                       !.offset = found.offset + Len(snippets[1])]

\* MoveStartAndEnd as it would be if a snippet without match put the start
\* position on line 1
MoveStartAndEndResetsUnmatched(fileStart, fileEnd, found, snippets, parsedDiff, isRightSide) ==
  IF ~IsDefined(found)
  THEN [threw |-> FALSE, start |-> Some([fileStart EXCEPT !.line = 1, !.offset = 1]),
        end |-> fileEnd]
  ELSE [threw |-> ~IsDefined(fileEnd),
        start |-> Some([fileStart EXCEPT !.line = Val(found).lineNumber,
                                         !.offset = Val(found).offset]),
        end |-> IF ~IsDefined(fileEnd) THEN fileEnd
                ELSE Some(MoveEnd(Val(fileEnd), Val(found), snippets, parsedDiff, isRightSide))]

\* Lines 32-43, for the result of the search for the first snippet line.
\* threw: the assignment to fileEnd.line of an undefined fileEnd (TypeError).
MoveStartAndEnd(fileStart, fileEnd, found, snippets, parsedDiff, isRightSide) ==
  IF ~IsDefined(found)
  THEN [threw |-> FALSE, start |-> Some(fileStart), end |-> fileEnd]
  ELSE [threw |-> ~IsDefined(fileEnd),
        start |-> Some([fileStart EXCEPT !.line = Val(found).lineNumber,
                                         !.offset = Val(found).offset]),
        end |-> IF ~IsDefined(fileEnd) THEN fileEnd
                ELSE Some(MoveEnd(Val(fileEnd), Val(found), snippets, parsedDiff, isRightSide))]

\* Lines 27-31, for the snippet split into lines
SearchFirstLine(fileStart, fileEnd, snippets, parsedDiff, isRightSide) ==
  MoveStartAndEnd(fileStart, fileEnd,
                  getLineNumberAndOffset(parsedDiff, snippets[1], fileStart.line, isRightSide),
                  snippets, parsedDiff, isRightSide)

\* fileStart is a position with a non-empty snippet, fileEnd an optional position
updateFileStartAndEnd(fileStart, fileEnd, parsedDiff, isRightSide) ==
  SearchFirstLine(fileStart, fileEnd, SplitLines(Val(fileStart.snippet)), parsedDiff, isRightSide)

\* The positions of one side written back into the thread context
WithSide(threadContext, r, isRightSide) ==
  [threw |-> r.threw,
   ctx |-> IF isRightSide
           THEN [threadContext EXCEPT !.rightFileStart = r.start, !.rightFileEnd = r.end]
           ELSE [threadContext EXCEPT !.leftFileStart = r.start, !.leftFileEnd = r.end]]

\* Lines 21-23: fileStart?.snippet?.length guards the update
FixSide(threadContext, fileStart, fileEnd, parsedDiff, isRightSide) ==
  IF /\ IsDefined(fileStart)
     /\ IsDefined(Val(fileStart).snippet)
     /\ Len(Val(Val(fileStart).snippet)) > 0
  THEN WithSide(threadContext,
                updateFileStartAndEnd(Val(fileStart), fileEnd, parsedDiff, isRightSide),
                isRightSide)
  ELSE [threw |-> FALSE, ctx |-> threadContext]

fixThreadContextLineNumberAndOffsets(threadContext, parsedDiff, isRightSide) ==
  FixSide(threadContext,
          IF isRightSide THEN threadContext.rightFileStart ELSE threadContext.leftFileStart,
          IF isRightSide THEN threadContext.rightFileEnd ELSE threadContext.leftFileEnd,
          parsedDiff, isRightSide)

\* Line 11, after line 10 returned right (or raised)
FixLeftAfter(right, parsedDiff) ==
  IF right.threw THEN right
  ELSE fixThreadContextLineNumberAndOffsets(right.ctx, parsedDiff, FALSE)

\* The loop body of fixThreadPositions: right side, then left side
FixThread(thread, parsedDiff) ==
  IF ~IsDefined(thread.threadContext) THEN [threw |-> FALSE, ctx |-> None]
  ELSE FixLeftAfter(
         fixThreadContextLineNumberAndOffsets(Val(thread.threadContext), parsedDiff, TRUE),
         parsedDiff)

\* The threads as returned, given the outcome of the loop body for each
FixedThreads(threads, fixed) ==
  [threw |-> \E k \in 1..Len(threads) : fixed[k].threw,
   threads |-> [k \in 1..Len(threads) |->
                  IF IsDefined(threads[k].threadContext)
                  THEN [threads[k] EXCEPT !.threadContext = Some(fixed[k].ctx)]
                  ELSE threads[k]]]

\* threw: some thread made the function raise; threads: the threads as returned
fixThreadPositions(threads, diff) ==
  FixedThreads(threads, [k \in 1..Len(threads) |-> FixThread(threads[k], diff)])

(***************************************************************************)
(* dedupe/dedupeUtils.ts                                                   *)
(***************************************************************************)
RECURSIVE FilterBelow(_, _, _)
\* The forEach loop of filterCommentsByConfidence over comments[i..]
FilterBelow(comments, i, confidenceMinimum) ==
  IF i > Len(comments) THEN [filteredOut |-> <<>>, remaining |-> <<>>]
  ELSE LET rest == FilterBelow(comments, i + 1, confidenceMinimum)
       IN IF /\ IsDefined(comments[i].confidenceScore)
             /\ Val(comments[i].confidenceScore) < confidenceMinimum
          THEN [rest EXCEPT !.filteredOut = <<comments[i]>> \o @]
          ELSE [rest EXCEPT !.remaining = <<comments[i]>> \o @]

filterCommentsByConfidence(comments, confidenceMinimum) ==
  FilterBelow(comments, 1, confidenceMinimum)

filterCommentsByPolicy(comments, policy) ==
  IF ~policy.confidence.enabled
  THEN [filteredOut |-> <<>>, remaining |-> comments]
  ELSE filterCommentsByConfidence(comments, policy.confidence.minimum)

\* NextDedupeMet as it would be if the function returned whether the
\* threshold was crossed by this call instead of keeping the flag it was given
NextDedupeMetNewlyTripped(runComments, policy, deduplicationCriteriaMet) ==
  /\ policy.dedupeAcrossFiles.enabled
  /\ ~deduplicationCriteriaMet
  /\ Len(filterCommentsByPolicy(runComments, policy).remaining)
       > policy.dedupeAcrossFiles.threshold

\* NextDedupeMet as it would be if a count equal to the threshold set the latch
NextDedupeMetAtThreshold(runComments, policy, deduplicationCriteriaMet) ==
  IF policy.dedupeAcrossFiles.enabled /\ ~deduplicationCriteriaMet
  THEN Len(filterCommentsByPolicy(runComments, policy).remaining)
         >= policy.dedupeAcrossFiles.threshold
  ELSE deduplicationCriteriaMet

\* The latch returned for the next file
NextDedupeMet(runComments, policy, deduplicationCriteriaMet) ==
  IF policy.dedupeAcrossFiles.enabled /\ ~deduplicationCriteriaMet
  THEN Len(filterCommentsByPolicy(runComments, policy).remaining)
         > policy.dedupeAcrossFiles.threshold
  ELSE deduplicationCriteriaMet

\* CommentsForExclusion as it would be if line 46 appended only the run
\* comments that pass the confidence filter
CommentsForExclusionPassingOnly(fileComments, runComments, policy, dedupeMet) ==
  IF policy.dedupeAcrossFiles.enabled /\ dedupeMet
  THEN fileComments \o filterCommentsByPolicy(runComments, policy).remaining
  ELSE fileComments

\* The comments whose content is sent, given the latch after the update
CommentsForExclusion(fileComments, runComments, policy, dedupeMet) ==
  IF policy.dedupeAcrossFiles.enabled /\ dedupeMet
  THEN fileComments \o runComments
  ELSE fileComments

ContentOf(comments) == [k \in 1..Len(comments) |-> comments[k].content]

\* Line 49, for the latch after the update
ExclusionResult(fileComments, runComments, policy, dedupeMet) ==
  << ContentOf(CommentsForExclusion(fileComments, runComments, policy, dedupeMet)), dedupeMet >>

\* Returns <<exclusion content, latch>>
getCommentContentForExclusion(fileComments, runComments, policy, deduplicationCriteriaMet) ==
  ExclusionResult(fileComments, runComments, policy,
                  NextDedupeMet(runComments, policy, deduplicationCriteriaMet))

\* createHash('sha256').update(s).digest('hex'): taken to be collision-free;
\* the digest of s is written "#" followed by s.
sha256(s) == <<"#">> \o s

\* filePath is optional, content a string
buildFindingSignature(filePath, content) ==
  sha256((IF IsDefined(filePath) THEN Val(filePath) ELSE <<>>) \o <<"|">> \o Trim(content))

RECURSIVE ConfidenceLoopInclusive(_, _, _)
\* ConfidenceLoop as it would be with <= in place of < on line 71
ConfidenceLoopInclusive(findings, i, minimum) ==
  IF i > Len(findings) THEN [remaining |-> <<>>, filteredOut |-> <<>>]
  ELSE LET rest == ConfidenceLoopInclusive(findings, i + 1, minimum)
       IN IF IsDefined(findings[i].confidence) /\ Val(findings[i].confidence) <= minimum
          THEN [rest EXCEPT !.filteredOut = <<findings[i]>> \o @]
          ELSE [rest EXCEPT !.remaining = <<findings[i]>> \o @]

RECURSIVE ConfidenceLoop(_, _, _)
\* The for loop of applyConfidenceFilterToFindings over findings[i..]
ConfidenceLoop(findings, i, minimum) ==
  IF i > Len(findings) THEN [remaining |-> <<>>, filteredOut |-> <<>>]
  ELSE LET rest == ConfidenceLoop(findings, i + 1, minimum)
       IN IF IsDefined(findings[i].confidence) /\ Val(findings[i].confidence) < minimum
          THEN [rest EXCEPT !.filteredOut = <<findings[i]>> \o @]
          ELSE [rest EXCEPT !.remaining = <<findings[i]>> \o @]

\* applyConfidenceFilterToFindings as it would be with the comparison reversed
applyConfidenceFilterReversed(findings, policy) ==
  IF ~policy.confidence.enabled
  THEN [remaining |-> findings, filteredOut |-> <<>>]
  ELSE [remaining |-> SelectSeq(findings, LAMBDA f :
                        ~(IsDefined(f.confidence)
                          /\ Val(f.confidence) > policy.confidence.minimum)),
        filteredOut |-> SelectSeq(findings, LAMBDA f :
                          IsDefined(f.confidence)
                          /\ Val(f.confidence) > policy.confidence.minimum)]

applyConfidenceFilterToFindings(findings, policy) ==
  IF ~policy.confidence.enabled
  THEN [remaining |-> findings, filteredOut |-> <<>>]
  ELSE ConfidenceLoop(findings, 1, policy.confidence.minimum)

\* SignatureOf as it would be if the content were hashed without trim()
SignatureOfUntrimmed(finding) ==
  IF Len(finding.id) > 0 THEN finding.id
  ELSE sha256(finding.filePath \o <<"|">> \o finding.content)

\* The signature a finding is compared by: its id when it has one
SignatureOf(finding) ==
  IF Len(finding.id) > 0 THEN finding.id
  ELSE buildFindingSignature(Some(finding.filePath), finding.content)

\* previousSignaturesOf as it would be if previous comments were hashed untrimmed
previousSignaturesUntrimmed(previousComments) ==
  {sha256((IF IsDefined(previousComments[k].filePath)
           THEN Val(previousComments[k].filePath) ELSE <<>>)
          \o <<"|">> \o previousComments[k].content) :
     k \in 1..Len(previousComments)}

previousSignaturesOf(previousComments) ==
  {buildFindingSignature(previousComments[k].filePath, previousComments[k].content) :
     k \in 1..Len(previousComments)}

RECURSIVE DedupeLoop(_, _, _, _)
\* The for loop of dedupeAgainstPrevious over findings[i..]; seen is seenSignatures
DedupeLoop(findings, i, previousSignatures, seen) ==
  IF i > Len(findings) THEN [deduped |-> <<>>, removed |-> <<>>, seenSignatures |-> seen]
  ELSE LET signature == SignatureOf(findings[i])
           alreadySeen == signature \in seen \/ signature \in previousSignatures
       IN IF alreadySeen
          THEN LET rest == DedupeLoop(findings, i + 1, previousSignatures, seen)
               IN [rest EXCEPT !.removed = <<findings[i]>> \o @]
          ELSE LET rest == DedupeLoop(findings, i + 1, previousSignatures,
                                      seen \cup {signature})
               IN [rest EXCEPT !.deduped = <<[findings[i] EXCEPT !.id = signature]>> \o @]

\* previousComments is optional; seenSignatures is returned as updated
dedupeAgainstPrevious(findings, previousComments, seenSignatures) ==
  DedupeLoop(findings, 1,
             previousSignaturesOf(IF IsDefined(previousComments)
                                  THEN Val(previousComments) ELSE <<>>),
             seenSignatures)

(***************************************************************************)
(* reviewEngine.ts: helpers of reviewCode                                  *)
(***************************************************************************)
normalizePath(path) ==
  IF StartsWith(path, <<"/">>) THEN path ELSE <<"/">> \o path

buildLlmRequest(filePath, diff, existingComments, policy) ==
  [filePath |-> normalizePath(filePath),
   diff |-> diff,
   existingComments |-> existingComments,
   options |-> [checks |-> policy.checks,
                modifiedLinesOnly |-> policy.modifiedLinesOnly,
                additionalPrompts |-> policy.prompts.additional,
                confidenceMode |-> policy.confidence.enabled,
                systemPrompt |-> policy.prompts.systemPrompt]]

\* ctx?.x?.line of an optional context and an optional position
LineOf(ctx, side) ==
  IF IsDefined(ctx) /\ IsDefined(Val(ctx)[side]) THEN Some(Val(Val(ctx)[side]).line) ELSE None

deriveLineRange(ctx) ==
  [lineStart |-> IF IsDefined(LineOf(ctx, "rightFileStart"))
                 THEN LineOf(ctx, "rightFileStart") ELSE LineOf(ctx, "leftFileStart"),
   lineEnd |-> IF IsDefined(LineOf(ctx, "rightFileEnd"))
               THEN LineOf(ctx, "rightFileEnd") ELSE LineOf(ctx, "leftFileEnd")]

\* (issueType ?? '').toUpperCase() over the issue types of the model
ToUpperCase(word) ==
  CASE word = "security" -> "SECURITY"
    [] word = "bug" -> "BUG"
    [] word = "performance" -> "PERFORMANCE"
    [] word = "best_practice" -> "BEST_PRACTICE"
    [] word = "Bug" -> "BUG"
    [] word = "Performance" -> "PERFORMANCE"
    [] word = "low" -> "LOW"
    [] word = "style" -> "STYLE"
    [] OTHER -> word

\* deriveSeverity as it would be without toUpperCase()
deriveSeverityCaseSensitive(issueType) ==
  LET upper == IF IsDefined(issueType) THEN Val(issueType) ELSE ""
  IN CASE upper = "SECURITY" -> "critical"
       [] upper = "BUG" -> "high"
       [] upper = "PERFORMANCE" -> "high"
       [] upper = "BEST_PRACTICE" -> "medium"
       [] OTHER -> "medium"

deriveSeverity(issueType) ==
  LET upper == ToUpperCase(IF IsDefined(issueType) THEN Val(issueType) ELSE "")
  IN CASE upper = "SECURITY" -> "critical"
       [] upper = "BUG" -> "high"
       [] upper = "PERFORMANCE" -> "high"
       [] upper = "BEST_PRACTICE" -> "medium"
       [] OTHER -> "medium"

\* origin is not a field of the code's Finding: it names the comment the
\* finding was made from, <<file index, index among the file's comments>>.
threadToFindings(thread, filePath) ==
  LET range == deriveLineRange(thread.threadContext)
  IN [k \in 1..Len(thread.comments) |->
        [id |-> <<>>,
         filePath |-> filePath,
         lineStart |-> range.lineStart,
         lineEnd |-> range.lineEnd,
         severity |-> deriveSeverity(thread.comments[k].issueType),
         category |-> thread.comments[k].issueType,
         title |-> IF IsDefined(thread.comments[k].issueType)
                   THEN Val(thread.comments[k].issueType) ELSE "Code review",
         content |-> thread.comments[k].content,
         confidence |-> thread.comments[k].confidenceScore,
         threadContext |-> thread.threadContext,
         sourceThread |-> Some(thread),
         origin |-> <<0, 0>>]]

summarize(summary) ==
  <<"Findings: ", summary.remaining, " (", summary.filtered,
    " filtered out, total generated ", summary.total, ").">>

computeSummary(findings, filteredOut) ==
  [total |-> Len(findings) + Len(filteredOut),
   filtered |-> Len(filteredOut),
   remaining |-> Len(findings)]

stripSourceThreads(report) ==
  [report EXCEPT
     !.findings = [k \in 1..Len(report.findings) |->
                     [report.findings[k] EXCEPT !.sourceThread = None]],
     !.filteredOut = [k \in 1..Len(report.filteredOut) |->
                        [report.filteredOut[k] EXCEPT !.sourceThread = None]]]

\* NoFiles as it would be if only a missing list were tested (!input.files)
NoFilesOnlyMissing(in) == ~IsDefined(in.files)

\* !input.files?.length
NoFiles(in) == ~IsDefined(in.files) \/ Len(Val(in.files)) = 0

EmptyReport ==
  [summaryMarkdown |-> <<"No files to review.">>, findings |-> <<>>, filteredOut |-> <<>>]

\* input.previousComments ?? []
PreviousOf(in) ==
  IF IsDefined(in.previousComments) THEN Val(in.previousComments) ELSE <<>>

\* previousFileComments as it would be without the filter on the path
previousFileCommentsOfAnyFile(in, file) ==
  [k \in 1..Len(PreviousOf(in)) |->
     [content |-> PreviousOf(in)[k].content, commentType |-> 0,
      confidenceScore |-> None, issueType |-> None]]

\* The previous comments of one file, as ReviewComments
previousFileComments(in, file) ==
  LET matching == SelectSeq(PreviousOf(in),
                    LAMBDA c : normalizePath(IF IsDefined(c.filePath) THEN Val(c.filePath) ELSE <<>>)
                                 = normalizePath(file.path))
  IN [k \in 1..Len(matching) |->
        [content |-> matching[k].content, commentType |-> 0,
         confidenceScore |-> None, issueType |-> None]]

\* thread.comments of every thread, in order
CommentsOf(threads) == Flatten([k \in 1..Len(threads) |-> threads[k].comments])

\* The findings of one file, each tagged with the comment it comes from
FindingsOf(threads, filePath, fileIndex) ==
  LET flat == Flatten([k \in 1..Len(threads) |-> threadToFindings(threads[k], filePath)])
  IN [k \in 1..Len(flat) |-> [flat[k] EXCEPT !.origin = <<fileIndex, k>>]]

(***************************************************************************)
(* Inputs of the model                                                     *)
(***************************************************************************)
Str_x == <<"x">>
Str_xPadded == <<" ", "x", " ">>
Str_y == <<"y">>
Snippet_x1 == <<"x", "=", "1">>

\* parse-git-diff of a diff that holds only the "diff --git" header line
DiffEmpty == [files |-> <<>>]

\* parse-git-diff of a diff with one chunk of three lines
DiffA ==
  [files |-> <<
     [chunks |-> <<
        [changes |-> <<
           [type |-> "UnchangedLine", content |-> <<"f", "(", ")">>,
            lineBefore |-> 1, lineAfter |-> 1],
           [type |-> "AddedLine", content |-> <<" ", "x", "=", "1">>, lineAfter |-> 2],
           [type |-> "AddedLine", content |-> <<"x", "=", "1", ";">>, lineAfter |-> 5] >>] >>] >>]

\* The k-th file of an input: the paths "a", "/b", "/a", "b" in turn, so that
\* files 1 and 3 (and 2 and 4) have paths that differ by the leading "/" only
FileAt(k) ==
  CASE k % 4 = 1 -> [path |-> <<"a">>, diff |-> DiffA]
    [] k % 4 = 2 -> [path |-> <<"/", "b">>, diff |-> DiffEmpty]
    [] k % 4 = 3 -> [path |-> <<"/", "a">>, diff |-> DiffA]
    [] OTHER -> [path |-> <<"b">>, diff |-> DiffEmpty]

FileLists == {[k \in 1..n |-> FileAt(k)] : n \in 0..MaxFiles}

SeqsUpTo(S, n) == UNION {[1..k -> S] : k \in 0..n}

\* The threshold is read only when cross-file dedup is enabled
PolicyChoices ==
  { [checks |-> [bugs |-> TRUE, performance |-> TRUE, bestPractices |-> TRUE],
     modifiedLinesOnly |-> TRUE,
     confidence |-> [enabled |-> ce, minimum |-> 5],
     dedupeAcrossFiles |-> de,
     prompts |-> [additional |-> <<>>, systemPrompt |-> None]] :
       ce \in BOOLEAN,
       de \in {[enabled |-> FALSE, threshold |-> 1],
               [enabled |-> TRUE, threshold |-> 0],
               [enabled |-> TRUE, threshold |-> 1]} }

PreviousChoices ==
  { [filePath |-> Some(<<"/", "a">>), content |-> Str_x],
    [filePath |-> Some(<<"a">>), content |-> <<"y", " ">>],
    [filePath |-> None, content |-> Str_x] }

InputChoices ==
  { [files |-> f, policy |-> p, previousComments |-> c] :
      f \in {None} \cup {Some(fs) : fs \in FileLists},
      p \in PolicyChoices,
      c \in {None} \cup {Some(cs) : cs \in SeqsUpTo(PreviousChoices, MaxPrev) \ {<<>>}} }

Pos(line, offset, snippet) == [line |-> line, offset |-> offset, snippet |-> snippet]

\* A right-side location without snippet (nothing to correct)
CtxPlain ==
  [filePath |-> <<"/", "a">>,
   leftFileStart |-> None, leftFileEnd |-> None,
   rightFileStart |-> Some(Pos(1, 1, None)), rightFileEnd |-> Some(Pos(1, 10, None))]

\* A right-side location with an approximate line and a snippet
CtxSnippet ==
  [filePath |-> <<"/", "a">>,
   leftFileStart |-> None, leftFileEnd |-> None,
   rightFileStart |-> Some(Pos(4, 1, Some(Snippet_x1))),
   rightFileEnd |-> Some(Pos(4, 1, None))]

\* A right-side start with a snippet and no end position
CtxNoEnd ==
  [filePath |-> <<"/", "a">>,
   leftFileStart |-> None, leftFileEnd |-> None,
   rightFileStart |-> Some(Pos(4, 1, Some(Snippet_x1))), rightFileEnd |-> None]

Comment(content, confidenceScore, issueType) ==
  [content |-> content, commentType |-> 2,
   confidenceScore |-> confidenceScore, issueType |-> issueType]

Thread(ctx, comments) == [comments |-> comments, status |-> 1, threadContext |-> Some(ctx)]

\* The responses the LLM client may give to one call
ResponseChoices ==
  { [threads |-> None],
    [threads |-> Some(<< Thread(CtxPlain, << Comment(Str_xPadded, None, None),
                                             Comment(Str_y, Some(2), Some("bug")) >>) >>)],
    [threads |-> Some(<< Thread(CtxSnippet, << Comment(Str_x, Some(2), Some("SECURITY")),
                                               Comment(Str_x, Some(9), Some("BUG")) >>),
                         Thread(CtxPlain, << Comment(Str_xPadded, None, None),
                                             Comment(Str_y, Some(5), Some("style")) >>) >>)],
    [threads |-> Some(<< Thread(CtxNoEnd, << Comment(Str_y, Some(5), Some("PERFORMANCE")) >>) >>)],
    [threads |-> Some(<< Thread(CtxPlain, << Comment(Str_x, Some(7), Some("Bug")),
                                             Comment(Str_y, None, Some("BEST_PRACTICE")),
                                             Comment(Str_xPadded, Some(3), Some("low")),
                                             Comment(Str_y, Some(6), Some("Performance")) >>) >>)] }

(***************************************************************************)
(* State of one invocation of reviewCode and of its LLM client             *)
(***************************************************************************)
VARIABLES
  input,              \* the ReviewInput of the invocation
  pc,                 \* "idle", "loop", "await", "done" or "failed"
  fileIndex,          \* 1-based index of the file the for loop is at
  filteredOut,        \* accumulators of reviewCode
  findings,
  runComments,
  seenSignatures,
  dedupeCriteriaMet,
  last,               \* values of the loop body's constants in the last iteration
  report,             \* the resolved value of the promise, None until then
  calls,              \* the requests the LLM client has received, in order
  outstanding,        \* the number of review calls not yet settled
  stub,               \* the LLM client: its response to call k, as far as drawn
  run,                \* 1 for the first invocation, 2 for the re-run
  seeding,            \* how the re-run's previousComments were set: "none" in run 1
  rejectedCall,       \* the index of the review call the LLM client rejected, 0 if none
  client,             \* the OpenAiLlmClient: its config and its exchanges with the model
  task,               \* the Azure DevOps task: marker, iterations and the run's progress
  fixer,              \* one application of fixThreadPositions: arguments and results
  peer,               \* another invocation of reviewCode, in the same process
  selection           \* one call of filterFilesForReview: options and result

vars == <<input, pc, fileIndex, filteredOut, findings, runComments, seenSignatures,
          dedupeCriteriaMet, last, report, calls, outstanding, stub, run, seeding, rejectedCall,
          client, task, fixer, peer, selection>>

\* The variables that reviewCode with a stubbed LlmClient does not touch
others == <<client, task, fixer, peer, selection>>

NoLast ==
  [commentsForExclusion |-> <<>>, latchBefore |-> FALSE, threadFindings |-> <<>>,
   confidenceRemaining |-> <<>>, confidenceFiltered |-> <<>>,
   deduped |-> <<>>, removed |-> <<>>]

\* The parts of the program that an invocation with a stubbed client leaves out
NoClient == [config |-> [maxInputTokens |-> None], created |-> 0]
NoTask == [pc |-> "off"]
NoFixer == [pc |-> "off"]
NoSelection == [pc |-> "off"]

\* The locals of an invocation of reviewCode that has not been made
IdlePeer(in) ==
  [pc |-> "idle", input |-> in, fileIndex |-> 0, filteredOut |-> <<>>, findings |-> <<>>,
   runComments |-> <<>>, seenSignatures |-> {}, dedupeCriteriaMet |-> FALSE,
   report |-> None, calls |-> <<>>, before |-> FALSE]

NoPeer ==
  [IdlePeer([files |-> None, previousComments |-> None]) EXCEPT !.pc = "off"]

Init ==
  /\ input \in InputChoices
  /\ pc = "idle"
  /\ fileIndex = 0
  /\ filteredOut = <<>>
  /\ findings = <<>>
  /\ runComments = <<>>
  /\ seenSignatures = {}
  /\ dedupeCriteriaMet = FALSE
  /\ last = NoLast
  /\ report = None
  /\ calls = <<>>
  /\ outstanding = 0
  /\ stub = <<>>
  /\ run = 1
  /\ seeding = "none"
  /\ rejectedCall = 0
  /\ client = NoClient
  /\ task = NoTask
  /\ fixer = NoFixer
  /\ peer = NoPeer
  /\ selection = NoSelection

Files == Val(input.files)

\* reviewCode, lines 162-178: the empty-input return, or the accumulators
Invoke ==
  /\ pc = "idle"
  /\ IF NoFiles(input)
     THEN /\ report' = Some(EmptyReport)
          /\ pc' = "done"
          /\ fileIndex' = fileIndex
     ELSE /\ report' = None
          /\ pc' = "loop"
          /\ fileIndex' = 1
  /\ filteredOut' = <<>>
  /\ findings' = <<>>
  /\ runComments' = <<>>
  /\ seenSignatures' = {}
  /\ dedupeCriteriaMet' = FALSE
  /\ UNCHANGED <<input, last, calls, outstanding, stub, run, seeding, rejectedCall, others>>

\* CallLlm as it would be if the call were not awaited: the loop goes on to
\* the next file while the call is outstanding
CallLlmWithoutAwait ==
  /\ pc = "loop"
  /\ fileIndex <= Len(Files)
  /\ \E excl \in {getCommentContentForExclusion(
                     previousFileComments(input, Files[fileIndex]),
                     runComments, input.policy, dedupeCriteriaMet)} :
       /\ dedupeCriteriaMet' = excl[2]
       /\ calls' = Append(calls, buildLlmRequest(Files[fileIndex].path, Files[fileIndex].diff,
                                                 excl[1], input.policy))
       /\ last' = [NoLast EXCEPT !.commentsForExclusion = excl[1],
                                 !.latchBefore = dedupeCriteriaMet]
  /\ outstanding' = outstanding + 1
  /\ fileIndex' = fileIndex + 1
  /\ UNCHANGED <<input, pc, filteredOut, findings, runComments, seenSignatures,
                 report, stub, run, seeding, rejectedCall, others>>

\* Lines 181-200: the exclusion list of the next file and its review call
CallLlm ==
  /\ pc = "loop"
  /\ fileIndex <= Len(Files)
  /\ \E excl \in {getCommentContentForExclusion(
                     previousFileComments(input, Files[fileIndex]),
                     runComments, input.policy, dedupeCriteriaMet)} :
       /\ dedupeCriteriaMet' = excl[2]
       /\ calls' = Append(calls, buildLlmRequest(Files[fileIndex].path, Files[fileIndex].diff,
                                                 excl[1], input.policy))
       /\ last' = [NoLast EXCEPT !.commentsForExclusion = excl[1],
                                 !.latchBefore = dedupeCriteriaMet]
  /\ outstanding' = outstanding + 1
  /\ pc' = "await"
  /\ UNCHANGED <<input, fileIndex, filteredOut, findings, runComments, seenSignatures,
                 report, stub, run, seeding, rejectedCall, others>>

\* The responses call k of the client may get: the one drawn before, or any
ResponsesTo(k) == IF k <= Len(stub) THEN {stub[k]} ELSE ResponseChoices

\* AfterDedupe as it would be if line 225 were missing: removed findings are lost
AfterDedupeLosesRemoved(sanitizedThreads, threadFindings, conf, ded) ==
  [threw |-> FALSE,
   currentRunComments |-> CommentsOf(sanitizedThreads),
   threadFindings |-> threadFindings,
   confidenceRemaining |-> conf.remaining,
   confidenceFiltered |-> conf.filteredOut,
   deduped |-> ded.deduped,
   removed |-> <<>>,
   seenSignatures |-> ded.seenSignatures]

\* Lines 221-225
AfterDedupe(sanitizedThreads, threadFindings, conf, ded) ==
  [threw |-> FALSE,
   currentRunComments |-> CommentsOf(sanitizedThreads),
   threadFindings |-> threadFindings,
   confidenceRemaining |-> conf.remaining,
   confidenceFiltered |-> conf.filteredOut,
   deduped |-> ded.deduped,
   removed |-> ded.removed,
   seenSignatures |-> ded.seenSignatures]

\* AfterConfidence as it would be if the findings below the minimum
\* registered their signatures before the others are compared
AfterConfidenceRegisteringFiltered(in, sanitizedThreads, threadFindings, conf, seen) ==
  AfterDedupe(sanitizedThreads, threadFindings, conf,
              dedupeAgainstPrevious(conf.remaining, in.previousComments,
                                    seen \cup {SignatureOf(conf.filteredOut[k]) :
                                                 k \in 1..Len(conf.filteredOut)}))

\* Lines 213-221
AfterConfidence(in, sanitizedThreads, threadFindings, conf, seen) ==
  AfterDedupe(sanitizedThreads, threadFindings, conf,
              dedupeAgainstPrevious(conf.remaining, in.previousComments, seen))

\* Lines 205-216
AfterFindings(in, sanitizedThreads, threadFindings, seen) ==
  AfterConfidence(in, sanitizedThreads, threadFindings,
                  applyConfidenceFilterToFindings(threadFindings, in.policy), seen)

\* Lines 203-210; threw: fixThreadPositions raised and so does reviewCode
AfterFix(in, file, index, fixed, seen) ==
  IF fixed.threw
  THEN [threw |-> TRUE, currentRunComments |-> <<>>, threadFindings |-> <<>>,
        confidenceRemaining |-> <<>>, confidenceFiltered |-> <<>>,
        deduped |-> <<>>, removed |-> <<>>, seenSignatures |-> seen]
  ELSE AfterFindings(in, fixed.threads,
                     FindingsOf(fixed.threads, normalizePath(file.path), index), seen)

\* Lines 203-225: the loop body after the await, for one response
LoopBody(in, file, index, response, seen) ==
  AfterFix(in, file, index,
           fixThreadPositions(IF IsDefined(response.threads) THEN Val(response.threads)
                                                             ELSE <<>>,
                              file.diff),
           seen)

\* Line 176, const seenSignatures = new Set<string>() in the body of
\* reviewCode: the set an invocation reads is its own, whatever the set of
\* another invocation holds. SeenByModuleLevel is the set as it would be if
\* it were declared at module level, one for all invocations.
SeenByModuleLevel(own, ofOther) == own \cup ofOther

SeenBy(own, ofOther) == own

\* Lines 200-225: the await resumes with a response and the loop body runs
\* to its end
ResolveWith(response) ==
  /\ stub' = IF fileIndex <= Len(stub) THEN stub ELSE Append(stub, response)
  /\ \E body \in {LoopBody(input, Files[fileIndex], fileIndex, response,
                            SeenBy(seenSignatures, peer.seenSignatures))} :
       IF body.threw
       THEN /\ pc' = "failed"
            /\ UNCHANGED <<fileIndex, filteredOut, findings, runComments,
                           seenSignatures, last>>
       ELSE /\ pc' = "loop"
            /\ fileIndex' = fileIndex + 1
            /\ runComments' = runComments \o body.currentRunComments
            /\ filteredOut' = filteredOut \o body.confidenceFiltered \o body.removed
            /\ findings' = findings \o body.deduped
            /\ seenSignatures' = body.seenSignatures
            /\ last' = [last EXCEPT !.threadFindings = body.threadFindings,
                                    !.confidenceRemaining = body.confidenceRemaining,
                                    !.confidenceFiltered = body.confidenceFiltered,
                                    !.deduped = body.deduped,
                                    !.removed = body.removed]
  /\ outstanding' = outstanding - 1
  /\ UNCHANGED <<input, dedupeCriteriaMet, report, calls, run, seeding, rejectedCall>>

\* The promise of the stubbed client resolves
LlmResolve ==
  /\ pc = "await"
  /\ \E response \in ResponsesTo(fileIndex) : ResolveWith(response)
  /\ UNCHANGED others

\* LlmReject as it would be if the call were wrapped in a try/catch that
\* treats a failed review as a response without threads
LlmRejectCaught ==
  /\ pc = "await"
  /\ fileIndex > Len(stub)
  /\ pc' = "loop"
  /\ fileIndex' = fileIndex + 1
  /\ stub' = Append(stub, [threads |-> None])
  /\ rejectedCall' = Len(calls)
  /\ outstanding' = outstanding - 1
  /\ UNCHANGED <<input, filteredOut, findings, runComments, seenSignatures,
                 dedupeCriteriaMet, last, report, calls, run, seeding, others>>

\* Line 200: the promise rejects; reviewCode has no try/catch
LlmReject ==
  /\ pc = "await"
  /\ fileIndex > Len(stub)
  /\ pc' = "failed"
  /\ rejectedCall' = Len(calls)
  /\ outstanding' = outstanding - 1
  /\ UNCHANGED <<input, fileIndex, filteredOut, findings, runComments, seenSignatures,
                 dedupeCriteriaMet, last, report, calls, stub, run, seeding, others>>

\* Lines 228-238: the loop is over
Complete ==
  /\ pc = "loop"
  /\ fileIndex > Len(Files)
  /\ report' = Some(stripSourceThreads(
                  [summaryMarkdown |-> summarize(computeSummary(findings, filteredOut)),
                   findings |-> findings,
                   filteredOut |-> filteredOut]))
  /\ pc' = "done"
  /\ UNCHANGED <<input, fileIndex, filteredOut, findings, runComments, seenSignatures,
                 dedupeCriteriaMet, last, calls, outstanding, stub, run, seeding, rejectedCall, others>>

Next == Invoke \/ CallLlm \/ LlmResolve \/ LlmReject \/ Complete

Spec == Init /\ [][Next]_vars

(***************************************************************************)
(* A second invocation with the same LLM stub, its previousComments seeded *)
(* from the findings of the first report: "replace" sets previousComments  *)
(* to the seeded comments, "extend" appends them to the ones of the input. *)
(***************************************************************************)
SeededFrom(fs) ==
  [k \in 1..Len(fs) |-> [filePath |-> Some(fs[k].filePath), content |-> fs[k].content]]

SecondRun ==
  /\ pc = "done"
  /\ run = 1
  /\ \E mode \in {"replace", "extend"} :
       /\ seeding' = mode
       /\ input' = [input EXCEPT !.previousComments =
                      Some((IF mode = "extend" THEN PreviousOf(input) ELSE <<>>)
                             \o SeededFrom(Val(report).findings))]
  /\ run' = 2
  /\ pc' = "idle"
  /\ report' = None
  /\ calls' = <<>>
  /\ last' = NoLast
  /\ UNCHANGED <<fileIndex, filteredOut, findings, runComments, seenSignatures,
                 dedupeCriteriaMet, outstanding, stub, rejectedCall, others>>

NextTwice == Next \/ SecondRun

SpecTwice == Init /\ [][NextTwice]_vars

(***************************************************************************)
(* llm/openAiClient.ts: the gateway to the model.  The text of a model     *)
(* output is a sequence of lexical tokens: punctuation, string literals,   *)
(* numbers (in hundredths: 140 is 1.4), null and words that are no JSON.   *)
(* JavaScript values are records tagged with their type in the field t.    *)
(***************************************************************************)
Tok(t) == [t |-> t, s |-> <<>>, n |-> 0]
StrTok(s) == [t |-> "str", s |-> s, n |-> 0]
NumTok(n) == [t |-> "num", s |-> <<>>, n |-> n]

JUndefined == [t |-> "undefined"]
JNull == [t |-> "null"]
JNaN == [t |-> "nan"]
JNum(n) == [t |-> "num", n |-> n]
JStr(s) == [t |-> "str", s |-> s]
JArr(e) == [t |-> "arr", e |-> e]
JObj(m) == [t |-> "obj", m |-> m]
Member(k, v) == [k |-> k, v |-> v]

\* Index of the member of an object that has the key, 0 if none
KeyIndex(m, key) ==
  IF \E i \in 1..Len(m) : m[i].k = key
  THEN CHOOSE i \in 1..Len(m) : m[i].k = key
  ELSE 0

\* obj[key] = v on the members of an object: a property keeps its place
SetAt(m, i, key, v) ==
  IF i = 0 THEN Append(m, Member(key, v)) ELSE [m EXCEPT ![i] = Member(key, v)]

SetMember(m, key, v) == SetAt(m, KeyIndex(m, key), key, v)

GetAt(m, i) == IF i = 0 THEN JUndefined ELSE m[i].v

\* value.key and value?.key where value is not null or undefined, and
\* value?.key where it is: a primitive and a missing property give undefined
Get(value, key) == IF value.t = "obj" THEN GetAt(value.m, KeyIndex(value.m, key)) ELSE JUndefined

\* ToBoolean
Truthy(value) ==
  CASE value.t \in {"obj", "arr"} -> TRUE
    [] value.t = "str" -> Len(value.s) > 0
    [] value.t = "num" -> value.n # 0
    [] OTHER -> FALSE

TypeOf(value) ==
  CASE value.t \in {"num", "nan"} -> "number"
    [] value.t = "str" -> "string"
    [] value.t = "undefined" -> "undefined"
    [] OTHER -> "object"

IsArray(value) == value.t = "arr"

\* text.indexOf("{") and text.lastIndexOf("}"), 0-based, -1 if absent
IndexOfTok(text, t) ==
  IF \E i \in 1..Len(text) : text[i].t = t
  THEN (CHOOSE i \in 1..Len(text) : text[i].t = t /\ \A j \in 1..(i - 1) : text[j].t # t) - 1
  ELSE -1

LastIndexOfTok(text, t) ==
  IF \E i \in 1..Len(text) : text[i].t = t
  THEN (CHOOSE i \in 1..Len(text) : text[i].t = t /\ \A j \in (i + 1)..Len(text) : text[j].t # t) - 1
  ELSE -1

\* text.slice(start, end) for 0 <= start
Slice(text, start, end) ==
  IF end <= start THEN <<>>
  ELSE SubSeq(text, start + 1, IF end < Len(text) THEN end ELSE Len(text))

ExtractBetween(text, start, end) ==
  IF start = -1 \/ end = -1 \/ end <= start THEN None ELSE Some(Slice(text, start, end + 1))

tryExtractJsonObject(text) ==
  ExtractBetween(text, IndexOfTok(text, "{"), LastIndexOfTok(text, "}"))

\* JSON.parse: a value of the JSON grammar that takes the whole text, or a
\* SyntaxError (ok = FALSE).  A repeated key keeps the last value.
ParseFail == [ok |-> FALSE, v |-> JUndefined, next |-> 0]
ParseOk(v, next) == [ok |-> TRUE, v |-> v, next |-> next]
TokAt(toks, i) == IF i >= 1 /\ i <= Len(toks) THEN toks[i].t ELSE "eof"

RECURSIVE ParseValue(_, _)
RECURSIVE ParseMembers(_, _, _)
RECURSIVE ParseElements(_, _, _)

AfterMember(toks, m, key, r) ==
  IF ~r.ok THEN ParseFail
  ELSE IF TokAt(toks, r.next) = "," THEN ParseMembers(toks, r.next + 1, SetMember(m, key, r.v))
  ELSE IF TokAt(toks, r.next) = "}" THEN ParseOk(JObj(SetMember(m, key, r.v)), r.next + 1)
  ELSE ParseFail

ParseMembers(toks, i, m) ==
  IF TokAt(toks, i) = "str" /\ TokAt(toks, i + 1) = ":"
  THEN AfterMember(toks, m, toks[i].s, ParseValue(toks, i + 2))
  ELSE ParseFail

AfterElement(toks, e, r) ==
  IF ~r.ok THEN ParseFail
  ELSE IF TokAt(toks, r.next) = "," THEN ParseElements(toks, r.next + 1, Append(e, r.v))
  ELSE IF TokAt(toks, r.next) = "]" THEN ParseOk(JArr(Append(e, r.v)), r.next + 1)
  ELSE ParseFail

ParseElements(toks, i, e) == AfterElement(toks, e, ParseValue(toks, i))

ParseValue(toks, i) ==
  CASE TokAt(toks, i) = "{" ->
         IF TokAt(toks, i + 1) = "}" THEN ParseOk(JObj(<<>>), i + 2)
                                     ELSE ParseMembers(toks, i + 1, <<>>)
    [] TokAt(toks, i) = "[" ->
         IF TokAt(toks, i + 1) = "]" THEN ParseOk(JArr(<<>>), i + 2)
                                     ELSE ParseElements(toks, i + 1, <<>>)
    [] TokAt(toks, i) = "str" -> ParseOk(JStr(toks[i].s), i + 1)
    [] TokAt(toks, i) = "num" -> ParseOk(JNum(toks[i].n), i + 1)
    [] TokAt(toks, i) = "null" -> ParseOk(JNull, i + 1)
    [] OTHER -> ParseFail

WholeText(toks, r) == IF r.ok /\ r.next = Len(toks) + 1 THEN r ELSE ParseFail

JSONparse(toks) == WholeText(toks, ParseValue(toks, 1))

\* JSON.stringify of a value that holds no undefined and no NaN
RECURSIVE Stringify(_)
RECURSIVE StringifyMembers(_, _)
RECURSIVE StringifyElements(_, _)

StringifyMembers(m, i) ==
  IF i > Len(m) THEN <<>>
  ELSE (IF i > 1 THEN <<Tok(",")>> ELSE <<>>)
         \o <<StrTok(m[i].k), Tok(":")>> \o Stringify(m[i].v) \o StringifyMembers(m, i + 1)

StringifyElements(e, i) ==
  IF i > Len(e) THEN <<>>
  ELSE (IF i > 1 THEN <<Tok(",")>> ELSE <<>>) \o Stringify(e[i]) \o StringifyElements(e, i + 1)

Stringify(v) ==
  CASE v.t = "obj" -> <<Tok("{")>> \o StringifyMembers(v.m, 1) \o <<Tok("}")>>
    [] v.t = "arr" -> <<Tok("[")>> \o StringifyElements(v.e, 1) \o <<Tok("]")>>
    [] v.t = "str" -> <<StrTok(v.s)>>
    [] v.t = "num" -> <<NumTok(v.n)>>
    [] OTHER -> <<Tok("null")>>

\* The property names of the wire format, each a string of one item
K_threads == <<"threads">>
K_status == <<"status">>
K_threadContext == <<"threadContext">>
K_filePath == <<"filePath">>
K_comments == <<"comments">>
K_content == <<"content">>
K_issueType == <<"issueType">>
K_confidenceScore == <<"confidenceScore">>

\* isValidReviewThread as it would be if the status of a thread were not
\* looked at
isValidReviewThreadWithoutStatus(value) ==
  /\ Truthy(value)
  /\ Truthy(Get(Get(value, K_threadContext), K_filePath))
  /\ IsArray(Get(value, K_comments))

isValidReviewThread(value) ==
  /\ Truthy(value)
  /\ TypeOf(Get(value, K_status)) = "number"
  /\ Truthy(Get(Get(value, K_threadContext), K_filePath))
  /\ IsArray(Get(value, K_comments))

isValidResponse(response) ==
  /\ Truthy(response)
  /\ IsArray(Get(response, K_threads))
  /\ \A i \in 1..Len(Get(response, K_threads).e) : isValidReviewThread(Get(response, K_threads).e[i])

\* Number(s) of a string: a run of digits is its value, the empty string is
\* 0 and any other string of the model is NaN
Digits == <<"0", "1", "2", "3", "4", "5", "6", "7", "8", "9">>
DigitOf(ch) == (CHOOSE d \in 1..10 : Digits[d] = ch) - 1

RECURSIVE DigitsValue(_, _, _)
DigitsValue(s, i, acc) ==
  IF i > Len(s) THEN acc ELSE DigitsValue(s, i + 1, acc * 10 + DigitOf(s[i]))

ToNumber(value) ==
  CASE value.t = "num" -> value
    [] value.t = "str" /\ \A i \in 1..Len(value.s) : value.s[i] \in Range(Digits) ->
         JNum(100 * DigitsValue(value.s, 1, 0))
    [] OTHER -> JNaN

\* Math.max(0, Math.min(1, x)): NaN stays NaN
Clamp01(x) ==
  IF x.t = "nan" THEN JNaN
  ELSE JNum(IF x.n < 0 THEN 0 ELSE IF x.n > 100 THEN 100 ELSE x.n)

\* x / 10 on hundredths; exact for the scores of the model, kept in tenths
DivideBy10(x) == IF x.t = "nan" THEN JNaN ELSE JNum(x.n \div 10)

\* x > 1: false for NaN
GreaterThan1(x) == x.t = "num" /\ x.n > 100

NormalizeNumber(x) == IF GreaterThan1(x) THEN Clamp01(DivideBy10(x)) ELSE Clamp01(x)

normalizeConfidence(score) ==
  IF score.t \in {"undefined", "null"} THEN JUndefined ELSE NormalizeNumber(ToNumber(score))

\* comment.confidenceScore = normalizeConfidence(comment.confidenceScore) in
\* strict mode: a TypeError unless the comment is an object
CanNormalize(comment) == comment.t = "obj"

NormalizeComment(comment) ==
  JObj(SetMember(comment.m, K_confidenceScore,
                 normalizeConfidence(Get(comment, K_confidenceScore))))

NormalizeThread(thread) ==
  JObj(SetMember(thread.m, K_comments,
                 JArr([k \in 1..Len(Get(thread, K_comments).e) |->
                         NormalizeComment(Get(thread, K_comments).e[k])])))

\* Lines 85-89 on parsed.threads: threw if the loop raises
NormalizeThreads(threads) ==
  IF \A i \in 1..Len(threads) :
       \A k \in 1..Len(Get(threads[i], K_comments).e) :
         CanNormalize(Get(threads[i], K_comments).e[k])
  THEN [threw |-> FALSE, threads |-> [i \in 1..Len(threads) |-> NormalizeThread(threads[i])]]
  ELSE [threw |-> TRUE, threads |-> <<>>]

\* The text of a token, as string items
TextOfTok(tok) ==
  CASE tok.t = "str" -> <<"\"">> \o tok.s \o <<"\"">>
    [] tok.t = "num" -> <<ToString(tok.n)>>
    [] OTHER -> <<tok.t>>

TextOf(toks) == Flatten([i \in 1..Len(toks) |-> TextOfTok(toks[i])])

\* The template of lines 132-176, one item per line
buildSystemPrompt(request) ==
  <<"You are a precise code reviewer.",
    "- Input: JSON with fileName, diff (unified diff), and existingComments.",
    "- Do not repeat issues similar to existingComments.",
    "- Only raise meaningful issues (avoid nits).">>
  \o (IF request.options.modifiedLinesOnly THEN <<"- Only comment on modified lines.">> ELSE <<>>)
  \o (IF request.options.confidenceMode
      THEN <<"- Include confidenceScore between 0.0 and 1.0.">> ELSE <<>>)
  \o (IF request.options.checks.bugs THEN <<"- Report bugs.">> ELSE <<"- Do not report bugs.">>)
  \o (IF request.options.checks.performance
      THEN <<"- Report major performance issues.">> ELSE <<>>)
  \o (IF request.options.checks.bestPractices
      THEN <<"- Report missed best-practices.">> ELSE <<"- Skip best-practices.">>)
  \o Flatten([k \in 1..Len(request.options.additionalPrompts) |->
                <<"- ">> \o request.options.additionalPrompts[k]])
  \o <<"OUTPUT (STRICT):", "Rules:">>

\* The text of a diff, of which the model keeps the parsed form: its lines
DiffText(diff) ==
  Flatten([k \in 1..Len(getChangesFromDiff(diff)) |->
             getChangesFromDiff(diff)[k].content \o <<"\n">>])

buildUserPrompt(request) ==
  TextOf(Stringify(JObj(<<
    Member(<<"fileName">>, JStr(request.filePath)),
    Member(<<"diff">>, JStr(DiffText(request.diff))),
    Member(<<"existingComments">>,
           JArr([k \in 1..Len(request.existingComments) |->
                   JStr(request.existingComments[k])])) >>)))

FullPrompt(request) == buildSystemPrompt(request) \o <<"\n">> \o buildUserPrompt(request)

\* encode(message).length: the tokenizer of the model gives one token per item
TokenCount(message) == Len(message)

exceedsTokenLimit(config, message) ==
  IF ~IsDefined(config.maxInputTokens) \/ Val(config.maxInputTokens) = 0
  THEN FALSE
  ELSE TokenCount(message) > Val(config.maxInputTokens)

SnippetLength == 800

JP1 == JObj(<<Member(<<"line">>, JNum(100)), Member(<<"offset">>, JNum(100))>>)

diagnosticThread(filePath, issueType, content) ==
  [threads |-> <<
     JObj(<<Member(K_status, JNum(100)),
            Member(K_threadContext,
                   JObj(<<Member(K_filePath, JStr(filePath)),
                          Member(<<"leftFileStart">>, JP1),
                          Member(<<"leftFileEnd">>, JP1),
                          Member(<<"rightFileStart">>, JP1),
                          Member(<<"rightFileEnd">>, JP1)>>)),
            Member(K_comments,
                   JArr(<<JObj(<<Member(K_content, JStr(content)),
                                 Member(<<"commentType">>, JNum(0)),
                                 Member(K_issueType, JStr(<<issueType>>)),
                                 Member(K_confidenceScore, JNum(100)),
                                 Member(<<"confidenceScoreJustification">>,
                                        JStr(<<"Diagnostic message produced by the tool.">>)),
                                 Member(<<"fixSuggestion">>,
                                        JStr(<<"Inspect the raw LLM output and adjust the prompt/schema.">>))
                               >>)>>))>>) >>]

NoJsonContent(choice) ==
  <<"LLM_OUTPUT_PARSE_ERROR: No JSON object found in output. Output snippet:", "\n">>
    \o TextOf(Slice(choice, 0, SnippetLength))

ParseErrorContent(choice) ==
  <<"LLM_OUTPUT_PARSE_ERROR: Failed to parse JSON. Output snippet:", "\n">>
    \o TextOf(Slice(choice, 0, SnippetLength))

InvalidShapeContent == <<"LLM_OUTPUT_INVALID_SHAPE: missing threads[]">>

\* Lines 84-92 and the catch of lines 93-104 for what the loop raises
AfterNormalize(request, choice, normalized) ==
  IF normalized.threw
  THEN diagnosticThread(request.filePath, "BUG", ParseErrorContent(choice))
  ELSE [threads |-> normalized.threads]

\* AfterParse as it would be if an output of the wrong shape were taken as a
\* response without threads
AfterParseDropsInvalid(request, choice, parsed) ==
  IF ~parsed.ok
  THEN diagnosticThread(request.filePath, "BUG", ParseErrorContent(choice))
  ELSE IF ~isValidResponse(parsed.v)
  THEN [threads |-> <<>>]
  ELSE AfterNormalize(request, choice, NormalizeThreads(Get(parsed.v, K_threads).e))

\* Lines 75-104
AfterParse(request, choice, parsed) ==
  IF ~parsed.ok
  THEN diagnosticThread(request.filePath, "BUG", ParseErrorContent(choice))
  ELSE IF ~isValidResponse(parsed.v)
  THEN diagnosticThread(request.filePath, "BUG", InvalidShapeContent)
  ELSE AfterNormalize(request, choice, NormalizeThreads(Get(parsed.v, K_threads).e))

\* Lines 62-104
AfterExtract(request, choice, extractedJson) ==
  IF ~IsDefined(extractedJson)
  THEN diagnosticThread(request.filePath, "BUG", NoJsonContent(choice))
  ELSE AfterParse(request, choice, JSONparse(Val(extractedJson)))

\* Lines 59-104: the response to a completion; content is
\* response.choices?.[0]?.message?.content, None if it is missing
ResponseToCompletion(request, content) ==
  AfterExtract(request, IF IsDefined(content) THEN Val(content) ELSE <<>>,
               tryExtractJsonObject(IF IsDefined(content) THEN Val(content) ELSE <<>>))

\* The threads of the gateway as reviewCode reads them: the typed view of
\* types.ts on a thread whose properties have the types of the wire format
AsPositionOf(line, offset, snippet) ==
  Some(Pos(line.n \div 100, offset.n \div 100,
           IF snippet.t = "str" THEN Some(snippet.s) ELSE None))

AsPosition(p) ==
  IF p.t = "obj"
  THEN AsPositionOf(Get(p, <<"line">>), Get(p, <<"offset">>), Get(p, <<"snippet">>))
  ELSE None

AsContext(tc) ==
  [filePath |-> Get(tc, K_filePath).s,
   leftFileStart |-> AsPosition(Get(tc, <<"leftFileStart">>)),
   leftFileEnd |-> AsPosition(Get(tc, <<"leftFileEnd">>)),
   rightFileStart |-> AsPosition(Get(tc, <<"rightFileStart">>)),
   rightFileEnd |-> AsPosition(Get(tc, <<"rightFileEnd">>))]

AsCommentOf(content, commentType, score, issueType) ==
  [content |-> content.s,
   commentType |-> IF commentType.t = "num" THEN commentType.n \div 100 ELSE 0,
   confidenceScore |-> IF score.t = "num" THEN Some(score.n) ELSE None,
   issueType |-> IF issueType.t = "str" THEN Some(issueType.s[1]) ELSE None]

AsComment(c) ==
  AsCommentOf(Get(c, K_content), Get(c, <<"commentType">>),
              Get(c, K_confidenceScore), Get(c, K_issueType))

AsThreadOf(comments, tc) ==
  [comments |-> [k \in 1..Len(comments) |-> AsComment(comments[k])],
   status |-> 1,
   threadContext |-> Some(AsContext(tc))]

AsThread(thread) == AsThreadOf(Get(thread, K_comments).e, Get(thread, K_threadContext))

AsResponse(response) ==
  [threads |-> Some([i \in 1..Len(response.threads) |-> AsThread(response.threads[i])])]

(***************************************************************************)
(* Model outputs.  Scores are in hundredths.                               *)
(***************************************************************************)
WithScore(n) == <<Member(K_confidenceScore, JNum(n))>>
WithIssue(word) == <<Member(K_issueType, JStr(<<word>>))>>
JComment(content, more) == JObj(<<Member(K_content, JStr(content))>> \o more)
JContext == JObj(<<Member(K_filePath, JStr(<<"/", "a">>))>>)
JThread(comments) ==
  JObj(<<Member(K_status, JNum(100)), Member(K_threadContext, JContext),
         Member(K_comments, JArr(comments))>>)
JResponse(threads) == JObj(<<Member(K_threads, JArr(threads))>>)

\* Raw scores 8, 1.4 and none
Out_Scores1 ==
  Stringify(JResponse(<<JThread(<<JComment(Str_x, WithScore(800) \o WithIssue("BUG")),
                                  JComment(Str_y, WithScore(140)),
                                  JComment(Str_xPadded, <<>>)>>)>>))

\* Raw scores -0.2, null, 0.5, 1 and 85, in two threads
Out_Scores2 ==
  Stringify(JResponse(<<JThread(<<JComment(Str_x, WithScore(-20)),
                                  JComment(Str_y, <<Member(K_confidenceScore, JNull)>>)>>),
                        JThread(<<JComment(Str_x, WithScore(50)),
                                  JComment(Str_y, WithScore(100) \o WithIssue("security")),
                                  JComment(Str_y, WithScore(8500))>>)>>))

\* A JSON object inside a markdown fence, after a sentence
Out_Fenced ==
  <<Tok("Here"), Tok("~~~")>>
    \o Stringify(JResponse(<<JThread(<<JComment(Str_y, WithScore(900))>>)>>))
    \o <<Tok("~~~")>>

Out_NoThreads == Stringify(JResponse(<<>>))

\* Scores that are no numbers: "high" and "8"
Out_StringScores ==
  Stringify(JResponse(<<JThread(<<
    JComment(Str_x, <<Member(K_confidenceScore, JStr(<<"h", "i", "g", "h">>))>>),
    JComment(Str_y, <<Member(K_confidenceScore, JStr(<<"8">>))>>)>>)>>))

\* No JSON object
Out_Words == <<Tok("Sorry")>>
Out_Reversed == <<Tok("}"), Tok("{")>>
Out_Cut == SubSeq(Out_Scores1, 1, 8)

\* Not parsable
Out_Two == Out_NoThreads \o <<Tok("and")>> \o Out_NoThreads
Out_TrailingComma == SubSeq(Out_Scores1, 1, 9) \o <<Tok("}"), Tok("]"), Tok("}")>>

\* A comment that is null: the normalization loop raises
Out_NullComment == Stringify(JResponse(<<JThread(<<JNull>>)>>))

\* Not of the shape of a response
Out_Empty == Stringify(JObj(<<>>))
Out_ThreadsNull == Stringify(JObj(<<Member(K_threads, JNull)>>))
Out_ThreadsObject == Stringify(JObj(<<Member(K_threads, JObj(<<>>))>>))
Out_ThreadNull == Stringify(JResponse(<<JNull>>))
Out_NoStatus ==
  Stringify(JResponse(<<JObj(<<Member(K_threadContext, JContext),
                               Member(K_comments, JArr(<<JComment(Str_x, <<>>)>>))>>)>>))
Out_NoContext ==
  Stringify(JResponse(<<JObj(<<Member(K_status, JNum(100)),
                               Member(K_comments, JArr(<<JComment(Str_x, <<>>)>>))>>)>>))
Out_NoFilePath ==
  Stringify(JResponse(<<JObj(<<Member(K_status, JNum(100)),
                               Member(K_threadContext, JObj(<<>>)),
                               Member(K_comments, JArr(<<JComment(Str_x, <<>>)>>))>>)>>))
Out_EmptyFilePath ==
  Stringify(JResponse(<<JObj(<<Member(K_status, JNum(100)),
                               Member(K_threadContext, JObj(<<Member(K_filePath, JStr(<<>>))>>)),
                               Member(K_comments, JArr(<<JComment(Str_x, <<>>)>>))>>)>>))
Out_NoComments ==
  Stringify(JResponse(<<JThread(<<JComment(Str_x, <<>>)>>),
                        JObj(<<Member(K_status, JNum(100)),
                               Member(K_threadContext, JContext)>>)>>))

\* response.choices?.[0]?.message?.content of the completions the gateway
\* alone is given: None when a part of the path is missing
ClientCompletions ==
  {None} \cup {Some(text) : text \in
     {Out_Scores1, Out_Scores2, Out_Fenced, Out_NoThreads, Out_StringScores,
      Out_Words, Out_Reversed, Out_Cut, Out_Two, Out_TrailingComma, Out_NullComment,
      Out_Empty, Out_ThreadsNull, Out_ThreadsObject, Out_ThreadNull, Out_NoStatus,
      Out_NoContext, Out_NoFilePath, Out_EmptyFilePath, Out_NoComments}}

\* The completions given to the gateway under reviewCode: outputs whose
\* threads, when accepted, have the property types of the wire format
GatewayCompletions ==
  {None} \cup {Some(text) : text \in
     {Out_Scores1, Out_Fenced, Out_Words, Out_Two, Out_NullComment, Out_Empty}}

\* The inputs of reviewCode with the gateway: the previous comment is the
\* shape diagnostic of "/a", as published by an earlier run
GatewayInputChoices ==
  { [files |-> Some(fs), policy |-> [p EXCEPT !.confidence.minimum = 50],
     previousComments |-> c] :
      fs \in FileLists,
      p \in {q \in PolicyChoices : ~q.dedupeAcrossFiles.enabled},
      c \in {None, Some(<<[filePath |-> Some(<<"/", "a">>),
                           content |-> InvalidShapeContent]>>)} }

\* maxInputTokens: none, 0, between the prompts of the files "/b" and "a",
\* and above both
ConfigChoices ==
  {[maxInputTokens |-> m] : m \in {None, Some(0), Some(45), Some(1000)}}

RequestChoices ==
  {buildLlmRequest(f.path, f.diff, e, p) :
     f \in {FileAt(1), FileAt(2)},
     e \in {<<>>, <<Str_x, Str_y>>},
     p \in {q \in PolicyChoices : ~q.dedupeAcrossFiles.enabled}}

(***************************************************************************)
(* The OpenAiLlmClient as a state machine: client.pc is "idle", "called"   *)
(* (reviewCode entered with client.request), "create" (the completion is   *)
(* awaited), "returned" (resolved with client.response) or "rejected".     *)
(***************************************************************************)
IdleClient(config) ==
  [config |-> config, pc |-> "idle", request |-> None, created |-> 0,
   viaModel |-> FALSE, content |-> None, response |-> [threads |-> <<>>], log |-> <<>>]

\* Lines 36-57: the guardrail, or the call of the model
Guarded(cl, request) ==
  IF exceedsTokenLimit(cl.config, FullPrompt(request))
  THEN [cl EXCEPT !.pc = "returned", !.request = Some(request), !.viaModel = FALSE,
                  !.content = None, !.response = [threads |-> <<>>]]
  ELSE [cl EXCEPT !.pc = "create", !.request = Some(request), !.viaModel = TRUE,
                  !.content = None, !.created = cl.created + 1]

\* Lines 59-104
CompletionReceived(cl, content) ==
  [cl EXCEPT !.pc = "returned", !.content = content,
             !.response = ResponseToCompletion(Val(cl.request), content)]

\* log: what each settled call of reviewCode got and gave, a ghost of the model
Logged(cl) ==
  [cl EXCEPT !.pc = "idle",
             !.log = Append(cl.log, [request |-> Val(cl.request), viaModel |-> cl.viaModel,
                                      content |-> cl.content, response |-> cl.response])]

\* The state of reviewCode of the review engine
engine == <<input, pc, fileIndex, filteredOut, findings, runComments, seenSignatures,
            dedupeCriteriaMet, last, report, calls, outstanding, stub, run, seeding,
            rejectedCall>>

IdleEngine ==
  /\ pc = "idle"
  /\ fileIndex = 0
  /\ filteredOut = <<>>
  /\ findings = <<>>
  /\ runComments = <<>>
  /\ seenSignatures = {}
  /\ dedupeCriteriaMet = FALSE
  /\ last = NoLast
  /\ report = None
  /\ calls = <<>>
  /\ outstanding = 0
  /\ stub = <<>>
  /\ run = 1
  /\ seeding = "none"
  /\ rejectedCall = 0

NoInput ==
  [files |-> None, policy |-> CHOOSE p \in PolicyChoices : TRUE, previousComments |-> None]

\* The gateway alone: one call of reviewCode with any request
InitClient ==
  /\ input = NoInput
  /\ IdleEngine
  /\ client \in {[IdleClient(c) EXCEPT !.pc = "called", !.request = Some(r)] :
                    c \in ConfigChoices, r \in RequestChoices}
  /\ task = NoTask
  /\ fixer = NoFixer
  /\ peer = NoPeer
  /\ selection = NoSelection

ClientReviewCode ==
  /\ client.pc = "called"
  /\ client' = Guarded(client, Val(client.request))
  /\ UNCHANGED <<engine, task, fixer, peer, selection>>

\* Line 49 resolves with a completion of the set
CompletionArrives(completions) ==
  /\ client.pc = "create"
  /\ \E content \in completions : client' = CompletionReceived(client, content)
  /\ UNCHANGED <<engine, task, fixer, peer, selection>>

ClientCompletion == CompletionArrives(ClientCompletions)

\* Line 49 rejects: reviewCode of the client has no catch around it
ClientRejected ==
  /\ client.pc = "create"
  /\ client' = [client EXCEPT !.pc = "rejected"]
  /\ UNCHANGED <<engine, task, fixer, peer, selection>>

NextClient == ClientReviewCode \/ ClientCompletion \/ ClientRejected

SpecClient == InitClient /\ [][NextClient]_vars

\* reviewCode of the review engine with the OpenAiLlmClient as its LlmClient
InitGateway ==
  /\ input \in GatewayInputChoices
  /\ IdleEngine
  /\ client \in {IdleClient(c) : c \in ConfigChoices}
  /\ task = NoTask
  /\ fixer = NoFixer
  /\ peer = NoPeer
  /\ selection = NoSelection

\* llm.reviewCode(request) of reviewEngine.ts line 200 enters the client
GatewayReviewCode ==
  /\ pc = "await"
  /\ client.pc = "idle"
  /\ client' = Guarded(client, calls[Len(calls)])
  /\ UNCHANGED <<engine, task, fixer, peer, selection>>

GatewayCompletion == pc = "await" /\ CompletionArrives(GatewayCompletions)

\* The rejection of line 49 rejects the call of the client and reviewCode
GatewayRejected ==
  /\ pc = "await"
  /\ client.pc = "create"
  /\ client' = [client EXCEPT !.pc = "rejected"]
  /\ pc' = "failed"
  /\ rejectedCall' = Len(calls)
  /\ outstanding' = outstanding - 1
  /\ UNCHANGED <<input, fileIndex, filteredOut, findings, runComments, seenSignatures,
                 dedupeCriteriaMet, last, report, calls, stub, run, seeding, task, fixer,
                 peer, selection>>

\* The await of line 200 resumes with the response of the client
GatewayResolve ==
  /\ pc = "await"
  /\ client.pc = "returned"
  /\ ResolveWith(AsResponse(client.response))
  /\ client' = Logged(client)
  /\ UNCHANGED <<task, fixer, peer, selection>>

NextGateway ==
  \/ Invoke
  \/ CallLlm
  \/ GatewayReviewCode
  \/ GatewayCompletion
  \/ GatewayRejected
  \/ GatewayResolve
  \/ Complete

SpecGateway == InitGateway /\ [][NextGateway]_vars

(***************************************************************************)
(* fixThreadPositions on its own: applied to a list of threads and a diff, *)
(* and applied again to what it returned.  fixer.pc is "ready", "fixed",   *)
(* "refixed" or "raised".                                                  *)
(***************************************************************************)
Str_x1 == <<"x", "=", "1">>
Str_y2 == <<"y", "=", "2">>

\* A diff with deleted lines; on the right side "x=1" is on the lines 2 and
\* 4 and "y=2" on the lines 3 and 5, on the left side "x=1" is on 2 and 3
DiffB ==
  [files |-> <<
     [chunks |-> <<
        [changes |-> <<
           [type |-> "UnchangedLine", content |-> <<"a">>, lineBefore |-> 1, lineAfter |-> 1],
           [type |-> "DeletedLine", content |-> Str_x1, lineBefore |-> 2],
           [type |-> "AddedLine", content |-> <<" ">> \o Str_x1 \o <<";">>, lineAfter |-> 2],
           [type |-> "AddedLine", content |-> Str_y2, lineAfter |-> 3],
           [type |-> "UnchangedLine", content |-> Str_x1, lineBefore |-> 3, lineAfter |-> 4],
           [type |-> "DeletedLine", content |-> Str_y2, lineBefore |-> 4],
           [type |-> "AddedLine", content |-> Str_y2, lineAfter |-> 5] >>] >>] >>]

FixerDiffs == {DiffEmpty, DiffA, DiffB}

\* Snippets: one line, one line that is in no diff, two lines, two lines of
\* which the last is in no diff
FixerSnippets ==
  {Str_x1, <<"z">>, Str_x1 \o <<"\n">> \o Str_y2, Str_x1 \o <<"\n", "z">>}

FixerLines == {1, 3, 5}

StartChoices ==
  {None} \cup {Some(Pos(l, 7, s)) :
                 l \in FixerLines,
                 s \in {None, Some(<<>>)} \cup {Some(x) : x \in FixerSnippets}}

EndChoices == {None} \cup {Some(Pos(l, 9, None)) : l \in {1, 5}}

ContextChoices ==
  {[filePath |-> <<"/", "a">>, leftFileStart |-> ls, leftFileEnd |-> le,
    rightFileStart |-> rs, rightFileEnd |-> re] :
     ls \in StartChoices, le \in EndChoices, rs \in StartChoices, re \in EndChoices}

\* No thread, a thread without location, any one thread, and two threads of
\* which the first or the second has a snippet that is in the diffs
FixerThreadLists ==
  {<<>>, <<[comments |-> <<>>, status |-> 1, threadContext |-> None]>>}
    \cup {<<Thread(ctx, <<>>)>> : ctx \in ContextChoices}
    \cup {<<Thread(CtxPlain, <<>>), Thread(CtxSnippet, <<>>)>>,
          <<Thread(CtxSnippet, <<>>), Thread(CtxNoEnd, <<>>)>>}

InitFixer ==
  /\ input = NoInput
  /\ IdleEngine
  /\ client = NoClient
  /\ task = NoTask
  /\ peer = NoPeer
  /\ selection = NoSelection
  /\ fixer \in {[pc |-> "ready", threads |-> ts, diff |-> d, first |-> <<>>, second |-> <<>>] :
                   ts \in FixerThreadLists, d \in FixerDiffs}

\* The outcome of one application, written to the field `to`
Applied(fx, r, to, donePc) ==
  IF r.threw THEN [fx EXCEPT !.pc = "raised"]
  ELSE [fx EXCEPT !.pc = donePc, ![to] = r.threads]

FixOnce ==
  /\ fixer.pc = "ready"
  /\ fixer' = Applied(fixer, fixThreadPositions(fixer.threads, fixer.diff), "first", "fixed")
  /\ UNCHANGED <<engine, client, task, peer, selection>>

FixAgain ==
  /\ fixer.pc = "fixed"
  /\ fixer' = Applied(fixer, fixThreadPositions(fixer.first, fixer.diff), "second", "refixed")
  /\ UNCHANGED <<engine, client, task, peer, selection>>

NextFixer == FixOnce \/ FixAgain

SpecFixer == InitFixer /\ [][NextFixer]_vars

(***************************************************************************)
(* Two invocations of reviewCode in one process, interleaved at the await  *)
(* of line 200. The first is the invocation of Spec; the locals of the     *)
(* second are the fields of peer. Both are given LLM clients that answer   *)
(* call k with stub[k]. The second may be made again when it has returned. *)
(***************************************************************************)
PairInputChoices ==
  { [files |-> Some(fs),
     policy |-> [checks |-> [bugs |-> TRUE, performance |-> TRUE, bestPractices |-> TRUE],
                 modifiedLinesOnly |-> TRUE,
                 confidence |-> [enabled |-> TRUE, minimum |-> 5],
                 dedupeAcrossFiles |-> [enabled |-> TRUE, threshold |-> 0],
                 prompts |-> [additional |-> <<>>, systemPrompt |-> None]],
     previousComments |-> c] :
      fs \in {<<FileAt(1)>>, <<FileAt(1), FileAt(2)>>},
      c \in {None, Some(<<[filePath |-> Some(<<"/", "a">>), content |-> Str_x]>>)} }

InitPair ==
  /\ input \in PairInputChoices
  /\ IdleEngine
  /\ client = NoClient
  /\ task = NoTask
  /\ fixer = NoFixer
  /\ peer \in {IdlePeer(in) : in \in PairInputChoices}
  /\ selection = NoSelection

PeerFiles == Val(peer.input.files)

\* Lines 162-178 in the second invocation
PeerInvoke ==
  /\ peer.pc = "idle"
  /\ peer' = IF NoFiles(peer.input)
             THEN [peer EXCEPT !.pc = "done", !.report = Some(EmptyReport)]
             ELSE [peer EXCEPT !.pc = "loop", !.fileIndex = 1]
  /\ UNCHANGED <<engine, client, task, fixer, selection>>

\* Lines 181-200 in the second invocation
PeerCallLlm ==
  /\ peer.pc = "loop"
  /\ peer.fileIndex <= Len(PeerFiles)
  /\ \E excl \in {getCommentContentForExclusion(
                     previousFileComments(peer.input, PeerFiles[peer.fileIndex]),
                     peer.runComments, peer.input.policy, peer.dedupeCriteriaMet)} :
       peer' = [peer EXCEPT
                  !.pc = "await",
                  !.dedupeCriteriaMet = excl[2],
                  !.calls = Append(@, buildLlmRequest(PeerFiles[peer.fileIndex].path,
                                                      PeerFiles[peer.fileIndex].diff,
                                                      excl[1], peer.input.policy))]
  /\ UNCHANGED <<engine, client, task, fixer, selection>>

\* Lines 203-225 for the second invocation, for the result of the loop body
PeerAfterBody(p, body) ==
  IF body.threw THEN [p EXCEPT !.pc = "failed"]
  ELSE [p EXCEPT !.pc = "loop",
                 !.fileIndex = @ + 1,
                 !.runComments = @ \o body.currentRunComments,
                 !.filteredOut = @ \o body.confidenceFiltered \o body.removed,
                 !.findings = @ \o body.deduped,
                 !.seenSignatures = body.seenSignatures]

\* Lines 200-225 in the second invocation
PeerResolve ==
  /\ peer.pc = "await"
  /\ \E response \in ResponsesTo(peer.fileIndex) :
       /\ stub' = IF peer.fileIndex <= Len(stub) THEN stub ELSE Append(stub, response)
       /\ peer' = PeerAfterBody(peer,
                     LoopBody(peer.input, PeerFiles[peer.fileIndex], peer.fileIndex, response,
                              SeenBy(peer.seenSignatures, seenSignatures)))
  /\ UNCHANGED <<input, pc, fileIndex, filteredOut, findings, runComments, seenSignatures,
                 dedupeCriteriaMet, last, report, calls, outstanding, run, seeding,
                 rejectedCall, client, task, fixer, selection>>

\* Lines 228-238 in the second invocation
PeerComplete ==
  /\ peer.pc = "loop"
  /\ peer.fileIndex > Len(PeerFiles)
  /\ peer' = [peer EXCEPT
                !.pc = "done",
                !.report = Some(stripSourceThreads(
                   [summaryMarkdown |-> summarize(computeSummary(peer.findings,
                                                                 peer.filteredOut)),
                    findings |-> peer.findings,
                    filteredOut |-> peer.filteredOut]))]
  /\ UNCHANGED <<engine, client, task, fixer, selection>>

\* reviewCode is called once more after the second invocation has returned
PeerAgain ==
  /\ peer.pc \in {"done", "failed"}
  /\ ~peer.before
  /\ \E in \in PairInputChoices : peer' = [IdlePeer(in) EXCEPT !.before = TRUE]
  /\ UNCHANGED <<engine, client, task, fixer, selection>>

NextPair ==
  \/ Invoke \/ CallLlm \/ LlmResolve \/ Complete
  \/ PeerInvoke \/ PeerCallLlm \/ PeerResolve \/ PeerComplete \/ PeerAgain

SpecPair == InitPair /\ [][NextPair]_vars

(***************************************************************************)
(* The Azure DevOps task: run() of the task's entry point with the         *)
(* iteration marker of AdoPullRequest. task holds the pull request as      *)
(* Azure DevOps stores it (marker, latest) and the locals of the run.      *)
(***************************************************************************)
MaxIteration == 3
MaxRuns == 3

IterationRange(start, end) == [start |-> start, end |-> end]

\* The stored property Pria.LastReviewedIteration: none, a text that is not
\* JSON, or the JSON text of a range
NoMarker == [t |-> "none"]
GarbledMarker == [t |-> "garbled"]
StoredRange(range) == [t |-> "range", range |-> range]

\* getLastReviewedIteration: the stored range, {0, 0} when the property is
\* missing or cannot be parsed
getLastReviewedIteration(stored) ==
  IF stored.t = "range" THEN stored.range ELSE IterationRange(0, 0)

\* computeReviewRange as it would be without the lines 306-308
computeReviewRangeSinceEnd(lastReviewed, latest) ==
  [reviewRange |-> IterationRange(lastReviewed.end, latest),
   isRequeued |-> lastReviewed.end = latest]

\* computeReviewRange as it would be if a new range began where the range
\* reviewed last began
computeReviewRangeFromStart(lastReviewed, latest) ==
  [reviewRange |-> IF lastReviewed.end = latest THEN lastReviewed
                   ELSE IterationRange(lastReviewed.start, latest),
   isRequeued |-> lastReviewed.end = latest]

\* computeReviewRange after its two reads
computeReviewRange(lastReviewed, latest) ==
  [reviewRange |-> IF lastReviewed.end = latest THEN lastReviewed
                   ELSE IterationRange(lastReviewed.end, latest),
   isRequeued |-> lastReviewed.end = latest]

\* What is kept of the run before: its result and the range it computed
NoPriorRun ==
  [result |-> "none", decided |-> FALSE, reviewRange |-> IterationRange(0, 0),
   latestRead |-> 0, marker |-> NoMarker]

PriorRunOf(tk) ==
  [result |-> tk.result, decided |-> tk.decided, reviewRange |-> tk.reviewRange,
   latestRead |-> tk.latestRead, marker |-> tk.markerAtStart]

\* The locals of a run that has not begun, for a pull request. threads is
\* the number of threads publish() has to post, posted the number posted,
\* failedAt the thread whose post failed (0: none); initialMarker is the
\* marker before the first run and savedRanges the ranges stored since
NewRun(marker, latest, allowRequeue, prerequisites, runs) ==
  [pc |-> "start", marker |-> marker, latest |-> latest, allowRequeue |-> allowRequeue,
   prerequisites |-> prerequisites, runs |-> runs,
   markerAtStart |-> marker, lastReviewed |-> IterationRange(0, 0), latestRead |-> 0,
   decided |-> FALSE, reviewRange |-> IterationRange(0, 0), isRequeued |-> FALSE,
   result |-> "none", collected |-> <<>>, reviewed |-> 0, published |-> 0, saved |-> 0,
   rejected |-> FALSE, threads |-> 0, posted |-> 0, failedAt |-> 0,
   initialMarker |-> marker, savedRanges |-> <<>>, prior |-> NoPriorRun]

MarkerChoices ==
  {NoMarker, GarbledMarker, StoredRange(IterationRange(0, 1)), StoredRange(IterationRange(1, 2))}

PrerequisiteChoices == {"met", "notPullRequest", "noToken"}

InitTask ==
  /\ input = NoInput
  /\ IdleEngine
  /\ client = NoClient
  /\ fixer = NoFixer
  /\ peer = NoPeer
  /\ selection = NoSelection
  /\ task \in {NewRun(mk, latest, allow, pre, 1) :
                  mk \in MarkerChoices, latest \in 0..2, allow \in BOOLEAN,
                  pre \in PrerequisiteChoices}

\* run(), up to the first await of computeReviewRange
TaskStart ==
  /\ task.pc = "start"
  /\ task' = CASE task.prerequisites = "notPullRequest" ->
                   [task EXCEPT !.pc = "ended", !.result = "Skipped"]
                [] task.prerequisites = "noToken" ->
                   [task EXCEPT !.pc = "ended", !.result = "Failed"]
                [] OTHER -> [task EXCEPT !.pc = "readMarker"]
  /\ UNCHANGED <<engine, client, fixer, peer, selection>>

\* adoPullRequest.ts line 296 resumes with the stored marker
TaskLastReviewedRead ==
  /\ task.pc = "readMarker"
  /\ task' = [task EXCEPT !.pc = "readLatest",
                          !.lastReviewed = getLastReviewedIteration(task.marker)]
  /\ UNCHANGED <<engine, client, fixer, peer, selection>>

\* run() after computeReviewRange, for its result
AfterReviewRange(tk, computed) ==
  IF computed.isRequeued /\ ~tk.allowRequeue
  THEN [tk EXCEPT !.pc = "ended", !.result = "Succeeded", !.decided = TRUE,
                  !.reviewRange = computed.reviewRange, !.isRequeued = computed.isRequeued]
  ELSE [tk EXCEPT !.pc = "files", !.decided = TRUE,
                  !.reviewRange = computed.reviewRange, !.isRequeued = computed.isRequeued]

\* adoPullRequest.ts line 298 resumes with the latest iteration id;
\* computeReviewRange returns and run() goes on to its next await
TaskLatestRead ==
  /\ task.pc = "readLatest"
  /\ task' = AfterReviewRange([task EXCEPT !.latestRead = task.latest],
                              computeReviewRange(task.lastReviewed, task.latest))
  /\ UNCHANGED <<engine, client, fixer, peer, selection>>

\* getIterationFiles, getDiffs and getCommentsForFiles have returned
TaskCollect ==
  /\ task.pc = "files"
  /\ task' = [task EXCEPT !.pc = "review", !.collected = Append(@, task.reviewRange)]
  /\ UNCHANGED <<engine, client, fixer, peer, selection>>

\* The findings of a report, by the path of their file
TaskReportChoices == {<<>>, <<"a">>, <<"a", "a">>, <<"a", "b">>}

CommentModes == {"pr_summary", "file", "inline"}

\* The number of threads publish() posts for the findings of a report: the
\* breadcrumb when there is none, else one summary, or a header and one
\* thread per file or per finding
threadsToPublish(commentMode, reportFindings) ==
  IF Len(reportFindings) = 0 THEN 1
  ELSE CASE commentMode = "pr_summary" -> 1
         [] commentMode = "file" -> 1 + Cardinality(Range(reportFindings))
         [] OTHER -> 1 + Len(reportFindings)

\* reviewCode returns a report; publish() is entered
TaskReviewed ==
  /\ task.pc = "review"
  /\ \E commentMode \in CommentModes, reportFindings \in TaskReportChoices :
       task' = [task EXCEPT !.pc = "publish", !.reviewed = @ + 1,
                            !.threads = threadsToPublish(commentMode, reportFindings)]
  /\ UNCHANGED <<engine, client, fixer, peer, selection>>

\* reviewCode rejects: the catch of run() sets the result
TaskReviewRejected ==
  /\ task.pc = "review"
  /\ task' = [task EXCEPT !.pc = "ended", !.reviewed = @ + 1, !.rejected = TRUE,
                          !.result = "Failed"]
  /\ UNCHANGED <<engine, client, fixer, peer, selection>>

\* safeAddThread has posted a thread that is not the last of the report
TaskThreadPosted ==
  /\ task.pc = "publish"
  /\ task.posted + 1 < task.threads
  /\ task' = [task EXCEPT !.posted = @ + 1]
  /\ UNCHANGED <<engine, client, fixer, peer, selection>>

\* safeAddThread has posted the last thread; publisher.publish returns
TaskPublished ==
  /\ task.pc = "publish"
  /\ task.posted + 1 = task.threads
  /\ task' = [task EXCEPT !.pc = "save", !.posted = @ + 1, !.published = @ + 1]
  /\ UNCHANGED <<engine, client, fixer, peer, selection>>

\* TaskPublishFailed as it would be if safeAddThread logged the error
\* without raising it again: publish() goes on and returns
TaskPublishFailureLogged ==
  /\ task.pc = "publish"
  /\ task' = [task EXCEPT !.pc = "save", !.failedAt = task.posted + 1,
                          !.published = @ + 1]
  /\ UNCHANGED <<engine, client, fixer, peer, selection>>

\* addThread raises (adoPullRequest.ts line 281), safeAddThread raises it
\* again and so does publish(): the catch of run() sets the result
TaskPublishFailed ==
  /\ task.pc = "publish"
  /\ task' = [task EXCEPT !.pc = "ended", !.failedAt = task.posted + 1,
                          !.result = "Failed"]
  /\ UNCHANGED <<engine, client, fixer, peer, selection>>

\* saveLastReviewedIteration has stored the range; the task succeeds
TaskSaved ==
  /\ task.pc = "save"
  /\ task' = [task EXCEPT !.pc = "ended", !.marker = StoredRange(task.reviewRange),
                          !.saved = @ + 1, !.result = "Succeeded",
                          !.savedRanges = Append(@, task.reviewRange)]
  /\ UNCHANGED <<engine, client, fixer, peer, selection>>

\* A push to the pull request adds an iteration
PushIteration ==
  /\ task.pc # "off"
  /\ task.latest < MaxIteration
  /\ task' = [task EXCEPT !.latest = @ + 1]
  /\ UNCHANGED <<engine, client, fixer, peer, selection>>

\* The build is queued again for the pull request
TaskQueuedAgain ==
  /\ task.pc = "ended"
  /\ task.runs < MaxRuns
  /\ task' = [NewRun(task.marker, task.latest, task.allowRequeue, "met", task.runs + 1)
                EXCEPT !.initialMarker = task.initialMarker,
                       !.savedRanges = task.savedRanges,
                       !.prior = PriorRunOf(task)]
  /\ UNCHANGED <<engine, client, fixer, peer, selection>>

NextTask ==
  \/ TaskStart \/ TaskLastReviewedRead \/ TaskLatestRead \/ TaskCollect
  \/ TaskReviewed \/ TaskReviewRejected \/ TaskThreadPosted \/ TaskPublished
  \/ TaskPublishFailed
  \/ TaskSaved \/ PushIteration \/ TaskQueuedAgain

SpecTask == InitTask /\ [][NextTask]_vars

(***************************************************************************)
(* policy/fileFilter.ts: filterFilesForReview. A file name and an option   *)
(* are strings; the options are optional. Glob patterns are those of the   *)
(* model: literal characters and "*", which matches within a path segment. *)
(***************************************************************************)
\* binaryExtensions.json, as far as the files of the model go
binaryExtensions == {<<"e", "x", "e">>, <<"p", "d", "f">>}

\* fileName.lastIndexOf('.'), 0-based, -1 when there is no dot
LastIndexOfDot(fileName) ==
  LET hits == {i \in 1..Len(fileName) : fileName[i] = "."}
  IN IF hits = {} THEN -1 ELSE (CHOOSE i \in hits : \A j \in hits : j <= i) - 1

getFileExtension(fileName) ==
  IF LastIndexOfDot(fileName) >= 0
  THEN SubSeq(fileName, LastIndexOfDot(fileName) + 1, Len(fileName))
  ELSE <<>>

\* extension.replace(/^\./, '')
WithoutLeadingDot(extension) ==
  IF Len(extension) > 0 /\ extension[1] = "." THEN Tail(extension) ELSE extension

RECURSIVE SplitAtCommas(_, _, _)
\* s.split(/\s*,\s*/) of a trimmed s: the pieces between the commas, without
\* the white space next to a comma
SplitAtCommas(s, i, cur) ==
  IF i > Len(s) THEN <<Trim(cur)>>
  ELSE IF s[i] = "," THEN <<Trim(cur)>> \o SplitAtCommas(s, i + 1, <<>>)
       ELSE SplitAtCommas(s, i + 1, Append(cur, s[i]))

parseInputToArray(in) ==
  IF IsDefined(in) THEN SplitAtCommas(Trim(Val(in)), 1, <<>>) ELSE <<>>

\* The lower-case form of a character of the model
LowerCase(ch) ==
  CASE ch = "A" -> "a" [] ch = "B" -> "b" [] ch = "C" -> "c" [] ch = "E" -> "e"
    [] ch = "J" -> "j" [] ch = "R" -> "r" [] ch = "S" -> "s" [] OTHER -> ch

RECURSIVE GlobMatches(_, _, _, _)
\* The pattern from its i-th character matches the text from its j-th
GlobMatches(pattern, i, text, j) ==
  IF i > Len(pattern) THEN j > Len(text)
  ELSE IF pattern[i] = "*"
       THEN \/ GlobMatches(pattern, i + 1, text, j)
            \/ (j <= Len(text) /\ text[j] # "/" /\ GlobMatches(pattern, i, text, j + 1))
       ELSE /\ j <= Len(text)
            /\ LowerCase(pattern[i]) = LowerCase(text[j])
            /\ GlobMatches(pattern, i + 1, text, j + 1)

\* micromatch.isMatch(file, patterns, { nocase: true })
isMatch(file, patterns) ==
  \E k \in 1..Len(patterns) : GlobMatches(patterns[k], 1, file, 1)

\* An optional string in a condition: undefined and '' are false
IsGiven(option) == IsDefined(option) /\ Len(Val(option)) > 0

SeqIncludes(list, item) == \E k \in 1..Len(list) : list[k] = item

\* Line 19
WithoutBinaries(files) ==
  SelectSeq(files, LAMBDA file :
              WithoutLeadingDot(getFileExtension(file)) \notin binaryExtensions)

\* Lines 21-32
IncludedOf(files, options) ==
  IF IsGiven(options.fileExtensions) \/ IsGiven(options.filesToInclude)
  THEN SelectSeq(files, LAMBDA file :
         \/ SeqIncludes(parseInputToArray(options.fileExtensions), getFileExtension(file))
         \/ isMatch(file, parseInputToArray(options.filesToInclude)))
  ELSE files

\* ExcludedOf as it would be if a file had to meet both exclude rules to be
\* dropped
ExcludedOfBoth(files, options) ==
  IF IsGiven(options.fileExtensionExcludes) \/ IsGiven(options.filesToExclude)
  THEN SelectSeq(files, LAMBDA file :
         \/ ~SeqIncludes(parseInputToArray(options.fileExtensionExcludes),
                         getFileExtension(file))
         \/ ~isMatch(file, parseInputToArray(options.filesToExclude)))
  ELSE files

\* Lines 34-45
ExcludedOf(files, options) ==
  IF IsGiven(options.fileExtensionExcludes) \/ IsGiven(options.filesToExclude)
  THEN SelectSeq(files, LAMBDA file :
         /\ ~SeqIncludes(parseInputToArray(options.fileExtensionExcludes),
                         getFileExtension(file))
         /\ ~isMatch(file, parseInputToArray(options.filesToExclude)))
  ELSE files

filterFilesForReview(options) ==
  ExcludedOf(IncludedOf(WithoutBinaries(options.files), options), options)

File_a_js == <<"a", ".", "j", "s">>
File_b_txt == <<"b", ".", "t", "x", "t">>
File_c_exe == <<"c", ".", "e", "x", "e">>
File_src_d_js == <<"s", "r", "c", "/", "d", ".", "j", "s">>
File_E_JS == <<"E", ".", "J", "S">>
File_mk == <<"m", "k">>
File_src_r_pdf == <<"s", "r", "c", "/", "r", ".", "p", "d", "f">>

FileNames ==
  {File_a_js, File_b_txt, File_c_exe, File_src_d_js, File_E_JS, File_mk, File_src_r_pdf}

AllFileNames ==
  <<File_src_d_js, File_c_exe, File_a_js, File_mk, File_E_JS, File_b_txt, File_src_r_pdf>>

\* Lists of at most two names, repeated names included, and two long lists
FileNameLists ==
  {<<>>, AllFileNames, [k \in 1..7 |-> AllFileNames[8 - k]]}
    \cup {<<f>> : f \in FileNames} \cup {<<f, g>> : f \in FileNames, g \in FileNames}

\* ".js", ".js , .txt" and ".txt,.cs"
Ext_js == <<".", "j", "s">>
Ext_js_txt == <<".", "j", "s", " ", ",", " ", ".", "t", "x", "t">>
Ext_txt_cs == <<".", "t", "x", "t", ",", ".", "c", "s">>

\* "*.txt", "SRC/*,b*", "src/*" and "e.*, m*"
Glob_txt == <<"*", ".", "t", "x", "t">>
Glob_SRC_b == <<"S", "R", "C", "/", "*", ",", "b", "*">>
Glob_src == <<"s", "r", "c", "/", "*">>
Glob_e_m == <<"e", ".", "*", ",", " ", "m", "*">>

\* The include options and the exclude options: none, an empty string, one
\* of the two, or both
IncludeChoices ==
  {<<None, None>>, <<Some(<<>>), None>>, <<Some(Ext_js), None>>, <<Some(Ext_js_txt), None>>,
   <<None, Some(Glob_txt)>>, <<None, Some(Glob_SRC_b)>>, <<Some(Ext_js), Some(Glob_txt)>>}

ExcludeChoices ==
  {<<None, None>>, <<None, Some(<<>>)>>, <<Some(Ext_js), None>>, <<Some(Ext_txt_cs), None>>,
   <<None, Some(Glob_src)>>, <<None, Some(Glob_e_m)>>, <<Some(Ext_js), Some(Glob_e_m)>>}

FileFilterOptions ==
  {[fileExtensions |-> inc[1], filesToInclude |-> inc[2],
    fileExtensionExcludes |-> exc[1], filesToExclude |-> exc[2], files |-> files] :
      inc \in IncludeChoices, exc \in ExcludeChoices, files \in FileNameLists}

InitFilter ==
  /\ input = NoInput
  /\ IdleEngine
  /\ client = NoClient
  /\ task = NoTask
  /\ fixer = NoFixer
  /\ peer = NoPeer
  /\ selection \in {[pc |-> "called", options |-> o, result |-> <<>>] : o \in FileFilterOptions}

\* filterFilesForReview returns
FilterFiles ==
  /\ selection.pc = "called"
  /\ selection' = [selection EXCEPT !.pc = "returned",
                                    !.result = filterFilesForReview(selection.options)]
  /\ UNCHANGED <<engine, client, task, fixer, peer>>

NextFilter == FilterFiles

SpecFilter == InitFilter /\ [][NextFilter]_vars

(***************************************************************************)
(* Definitions shared by the properties                                    *)
(***************************************************************************)
\* The comments of a response as the LLM client returned them
ResponseComments(response) ==
  IF IsDefined(response.threads) THEN CommentsOf(Val(response.threads)) ELSE <<>>

\* The comments generated for files 1..n of the current run, in order
GeneratedUpTo(n) == Flatten([k \in 1..n |-> ResponseComments(stub[k])])

\* Every <<file index, comment index>> of a comment generated for files 1..n
OriginsUpTo(n) ==
  UNION {{<<f, c>> : c \in 1..Len(ResponseComments(stub[f]))} : f \in 1..n}

OriginsIn(fs) == {fs[k].origin : k \in 1..Len(fs)}

Distinct(seq) == \A j, k \in 1..Len(seq) : j # k => seq[j] # seq[k]

\* o1 is examined before o2: file order, then thread and comment order
Before(o1, o2) == o1[1] < o2[1] \/ (o1[1] = o2[1] /\ o1[2] < o2[2])

Completed == pc = "done" /\ IsDefined(input.files) /\ Len(Val(input.files)) > 0

\* C1: when reviewCode completes on a non-empty file list, every comment
\* the LLM returned (over all files) is the origin of exactly one finding,
\* that finding is in exactly one of report.findings and report.filteredOut
\* (once), it carries the comment's content and confidence, and the total in
\* summaryMarkdown is |findings| + |filteredOut|, the number of comments
\* generated in the run.
C1_EveryCommentInExactlyOneList ==
  Completed =>
    /\ Len(stub) = Len(Val(input.files))
    /\ OriginsIn(Val(report).findings) \cup OriginsIn(Val(report).filteredOut)
         = OriginsUpTo(Len(stub))
    /\ OriginsIn(Val(report).findings) \cap OriginsIn(Val(report).filteredOut) = {}
    /\ Distinct([k \in 1..Len(Val(report).findings) |-> Val(report).findings[k].origin])
    /\ Distinct([k \in 1..Len(Val(report).filteredOut) |-> Val(report).filteredOut[k].origin])
    /\ \A f \in Range(Val(report).findings \o Val(report).filteredOut) :
         /\ f.content = ResponseComments(stub[f.origin[1]])[f.origin[2]].content
         /\ f.confidence = ResponseComments(stub[f.origin[1]])[f.origin[2]].confidenceScore
    /\ Len(Val(report).findings) + Len(Val(report).filteredOut) = Len(GeneratedUpTo(Len(stub)))
    /\ Val(report).summaryMarkdown =
         <<"Findings: ", Len(Val(report).findings), " (", Len(Val(report).filteredOut),
           " filtered out, total generated ", Len(GeneratedUpTo(Len(stub))), ").">>

\* C1 witness: a completed run over several files with kept findings and
\* findings filtered out both by confidence and by dedup.
C1_Witness ==
  /\ Completed
  /\ Len(Val(input.files)) >= 2
  /\ Len(Val(report).findings) >= 2
  /\ \E f \in Range(Val(report).filteredOut) :
       IsDefined(f.confidence) /\ Val(f.confidence) < input.policy.confidence.minimum
  /\ \E f \in Range(Val(report).filteredOut) : ~IsDefined(f.confidence)

\* The signatures of the caller-supplied previous comments
PreviousSignatures ==
  {buildFindingSignature(c.filePath, c.content) : c \in Range(PreviousOf(input))}

\* The loop body has run for at least one file and no call is outstanding
Folded == pc \in {"loop", "done"} /\ fileIndex > 1

\* C2: after the loop body of a file, every finding that passed the
\* confidence filter is in filteredOut if and only if its signature (hash of
\* filePath and trimmed content) is the signature of a previous comment or
\* of a finding kept earlier in the run (file, thread, comment order);
\* otherwise it is in findings with id = signature and the signature is in
\* the run-level set. No two findings share an id, no finding has the
\* signature of a previous comment, and findings keep the order of examination.
C2_FirstOccurrenceWins ==
  Folded =>
    /\ \A f \in Range(last.confidenceRemaining) :
         IF \/ buildFindingSignature(Some(f.filePath), f.content) \in PreviousSignatures
            \/ \E g \in Range(findings) :
                 /\ Before(g.origin, f.origin)
                 /\ g.id = buildFindingSignature(Some(f.filePath), f.content)
         THEN /\ f.origin \in OriginsIn(filteredOut)
              /\ f.origin \notin OriginsIn(findings)
         ELSE /\ f.origin \notin OriginsIn(filteredOut)
              /\ \E g \in Range(findings) :
                   /\ g.origin = f.origin
                   /\ g.id = buildFindingSignature(Some(f.filePath), f.content)
                   /\ g.id \in seenSignatures
    /\ Distinct([k \in 1..Len(findings) |-> findings[k].id])
    /\ \A g \in Range(findings) : g.id \notin PreviousSignatures
    /\ \A j, k \in 1..Len(findings) : j < k => Before(findings[j].origin, findings[k].origin)

\* C2 witness: in one file a finding is kept, a later one with the same
\* trimmed content is removed, and a previous comment removes another.
C2_Witness ==
  /\ Folded
  /\ Len(last.deduped) >= 1
  /\ \E f \in Range(last.removed) :
       /\ buildFindingSignature(Some(f.filePath), f.content) \notin PreviousSignatures
       /\ \E g \in Range(findings) : g.content # f.content /\ Trim(g.content) = Trim(f.content)
  /\ \E f \in Range(filteredOut) :
       /\ ~(IsDefined(f.confidence) /\ Val(f.confidence) < input.policy.confidence.minimum)
       /\ buildFindingSignature(Some(f.filePath), f.content) \in PreviousSignatures

\* C3 as stated: after a second run with the same LLM stub whose
\* previousComments were set to the (filePath, content) of the first
\* report's findings, report.findings is empty.
C3_SeededReplaceGivesNoFindings ==
  (run = 2 /\ pc = "done" /\ seeding = "replace") => Val(report).findings = <<>>

\* C3 amended: after a second run with the same LLM stub whose
\* previousComments are the input's previousComments followed by the
\* (filePath, content) of the first report's findings, report.findings is
\* empty.
C3_SeededExtendGivesNoFindings ==
  (run = 2 /\ pc = "done" /\ seeding = "extend") => Val(report).findings = <<>>

\* C3 witness: a completed second run, seeded on top of a caller-supplied
\* previous comment with at least two findings of the first run, in which
\* findings that pass the confidence filter were generated again.
C3_Witness ==
  /\ run = 2 /\ pc = "done" /\ seeding = "extend"
  /\ Len(PreviousOf(input)) >= 3
  /\ \E f \in Range(Val(report).filteredOut) :
       ~(IsDefined(f.confidence) /\ Val(f.confidence) < input.policy.confidence.minimum)

\* C4 as stated: in a completed run no finding of report.findings has a
\* defined confidence below policy.confidence.minimum.
C4_NoFindingBelowMinimum ==
  pc = "done" =>
    \A f \in Range(Val(report).findings) :
      IsDefined(f.confidence) => ~(Val(f.confidence) < input.policy.confidence.minimum)

\* C4 amended: in a completed run with policy.confidence.enabled, no
\* finding of report.findings has a defined confidence below
\* policy.confidence.minimum.
C4_NoFindingBelowMinimumWhenEnabled ==
  (pc = "done" /\ input.policy.confidence.enabled) =>
    \A f \in Range(Val(report).findings) :
      IsDefined(f.confidence) => ~(Val(f.confidence) < input.policy.confidence.minimum)

\* C4 witness: a completed run with confidence filtering enabled in which
\* a comment below the minimum was generated and one at the minimum was kept.
C4_Witness ==
  /\ Completed
  /\ input.policy.confidence.enabled
  /\ \E c \in Range(GeneratedUpTo(Len(stub))) :
       IsDefined(c.confidenceScore)
       /\ Val(c.confidenceScore) < input.policy.confidence.minimum
  /\ \E f \in Range(Val(report).findings) :
       f.confidence = Some(input.policy.confidence.minimum)

BelowMinimum(f) ==
  IsDefined(f.confidence) /\ Val(f.confidence) < input.policy.confidence.minimum

\* C5: the confidence step of a file moves nothing to filteredOut when
\* policy.confidence.enabled is false; when it is true it moves exactly the
\* findings whose confidence is defined and strictly below the minimum;
\* both outputs keep the order of the findings, and every finding passed on
\* reaches dedup (it is kept or removed there).
C5_ConfidenceStepRule ==
  Folded =>
    /\ ~input.policy.confidence.enabled =>
         /\ last.confidenceFiltered = <<>>
         /\ last.confidenceRemaining = last.threadFindings
    /\ input.policy.confidence.enabled =>
         /\ last.confidenceFiltered = SelectSeq(last.threadFindings, BelowMinimum)
         /\ last.confidenceRemaining =
              SelectSeq(last.threadFindings, LAMBDA f : ~BelowMinimum(f))
    /\ OriginsIn(last.confidenceRemaining) = OriginsIn(last.deduped) \cup OriginsIn(last.removed)

\* C5 witness: with filtering enabled, one file yields a finding below the
\* minimum, one at the minimum and one without confidence.
C5_Witness ==
  /\ Folded
  /\ input.policy.confidence.enabled
  /\ \E f \in Range(last.confidenceFiltered) : BelowMinimum(f)
  /\ \E f \in Range(last.confidenceRemaining) :
       f.confidence = Some(input.policy.confidence.minimum)
  /\ \E f \in Range(last.confidenceRemaining) : ~IsDefined(f.confidence)

\* C6: with input.files empty or missing, reviewCode returns exactly
\* {summaryMarkdown: "No files to review.", findings: [], filteredOut: []}
\* and the LLM client receives no call, for every policy and every
\* previousComments.
C6_EmptyInputShortCircuits ==
  (~IsDefined(input.files) \/ Len(Val(input.files)) = 0) =>
    /\ calls = <<>>
    /\ outstanding = 0
    /\ stub = <<>>
    /\ pc \in {"idle", "done"}
    /\ pc = "done" =>
         report = Some([summaryMarkdown |-> <<"No files to review.">>,
                        findings |-> <<>>, filteredOut |-> <<>>])

\* C6 witness: a returned report for an empty file list with previous comments.
C6_Witness ==
  /\ pc = "done"
  /\ IsDefined(input.files) /\ Len(Val(input.files)) = 0
  /\ IsDefined(input.previousComments)
  /\ input.policy.dedupeAcrossFiles.enabled

\* C7: the latch is false when the loop of a run starts, and once it is
\* true in a run it stays true in every later step of that run, so it is
\* true when the exclusion list of every later file is computed.
C7_LatchMonotonic ==
  /\ []((pc = "loop" /\ fileIndex = 1) => ~dedupeCriteriaMet)
  /\ [][(dedupeCriteriaMet /\ pc # "idle") => dedupeCriteriaMet']_vars

\* C7 witness: the call for the third file is outstanding, and the latch
\* was already set before the exclusion list of that file was computed.
C7_Witness ==
  /\ pc = "await"
  /\ fileIndex = 3
  /\ last.latchBefore
  /\ dedupeCriteriaMet

\* path with a leading "/" (written out, not through normalizePath)
WithSlash(path) == IF Len(path) > 0 /\ path[1] = "/" THEN path ELSE <<"/">> \o path

\* The content of the previous comments whose path is that of file k
PreviousContentFor(k) ==
  ContentOf(SelectSeq(PreviousOf(input),
              LAMBDA c : WithSlash(IF IsDefined(c.filePath) THEN Val(c.filePath) ELSE <<>>)
                           = WithSlash(Val(input.files)[k].path)))

\* C8: while the call for a file is outstanding, the exclusion list sent
\* with it is the content of that file's previous comments, followed by the
\* content of every comment generated for the earlier files of the run if
\* and only if cross-file dedup is enabled and the latch is set; the latch
\* is never set when cross-file dedup is disabled, and when it is set some
\* comment has been generated.
C8_ExclusionListRule ==
  pc = "await" =>
    /\ calls[Len(calls)].existingComments =
         IF input.policy.dedupeAcrossFiles.enabled /\ dedupeCriteriaMet
         THEN PreviousContentFor(fileIndex) \o ContentOf(GeneratedUpTo(fileIndex - 1))
         ELSE PreviousContentFor(fileIndex)
    /\ dedupeCriteriaMet => input.policy.dedupeAcrossFiles.enabled
    /\ dedupeCriteriaMet => GeneratedUpTo(fileIndex - 1) # <<>>

\* C8 witness: an outstanding call whose list holds a previous comment of
\* the file and run comments, one of them below the confidence minimum.
C8_Witness ==
  /\ pc = "await"
  /\ input.policy.dedupeAcrossFiles.enabled
  /\ input.policy.confidence.enabled
  /\ dedupeCriteriaMet
  /\ PreviousContentFor(fileIndex) # <<>>
  /\ \E c \in Range(GeneratedUpTo(fileIndex - 1)) :
       IsDefined(c.confidenceScore)
       /\ Val(c.confidenceScore) < input.policy.confidence.minimum
  /\ Len(calls[Len(calls)].existingComments) >= 3

\* C9: at most one review call is outstanding, and only while reviewCode
\* awaits; the calls made so far are for the files of the input, in input
\* order, one per file; when the call for file k is made the responses for
\* files 1..k-1 have been received and folded into the run state; a
\* completed run has made exactly one call per file.
C9_SequentialCalls ==
  /\ outstanding \in {0, 1}
  /\ outstanding = 1 <=> pc = "await"
  /\ (IsDefined(input.files) /\ pc # "idle") =>
       /\ Len(calls) <= Len(Val(input.files))
       /\ \A k \in 1..Len(calls) :
            /\ calls[k].filePath = WithSlash(Val(input.files)[k].path)
            /\ calls[k].diff = Val(input.files)[k].diff
       /\ pc = "await" =>
            /\ Len(calls) = fileIndex
            /\ Len(stub) >= fileIndex - 1
            /\ runComments = GeneratedUpTo(fileIndex - 1)
            /\ OriginsIn(findings) \cup OriginsIn(filteredOut) = OriginsUpTo(fileIndex - 1)
            /\ seenSignatures = {findings[k].id : k \in 1..Len(findings)}
       /\ pc = "done" => Len(calls) = Len(Val(input.files))

\* C9 witness: the call for the third file is outstanding after two
\* responses with comments have been folded.
C9_Witness ==
  /\ pc = "await"
  /\ fileIndex = 3
  /\ Len(findings) >= 2
  /\ Len(filteredOut) >= 1

\* C10: once the LLM client has rejected a call, reviewCode has failed:
\* that call is the last one made, nothing is outstanding and there is no
\* report; a failed run makes no further call and never gets a report; a
\* report exists only for a run in which every file was reviewed.
C10_FailFast ==
  /\ [](rejectedCall # 0 =>
          /\ pc = "failed"
          /\ report = None
          /\ Len(calls) = rejectedCall
          /\ outstanding = 0)
  /\ []((IsDefined(report) /\ IsDefined(input.files)) =>
          /\ pc = "done"
          /\ Len(calls) = Len(Val(input.files))
          /\ fileIndex = Len(calls) + 1 \/ Len(Val(input.files)) = 0)
  /\ [][pc = "failed" => (pc' = "failed" /\ calls' = calls /\ report' = report)]_vars

\* C10 witness: the call for the second of three files was rejected after
\* the first file had produced findings.
C10_Witness ==
  /\ pc = "failed"
  /\ rejectedCall = 2
  /\ Len(Val(input.files)) = 3
  /\ Len(findings) >= 1
  /\ report = None

(***************************************************************************)
(* Definitions shared by the properties of the gateway                     *)
(***************************************************************************)
\* The text of a completion
ChoiceOf(content) == IF IsDefined(content) THEN Val(content) ELSE <<>>

HasNoJsonObject(content) == ~IsDefined(tryExtractJsonObject(ChoiceOf(content)))

ParsedOf(content) == JSONparse(Val(tryExtractJsonObject(ChoiceOf(content))))

IsUnparsable(content) == ~HasNoJsonObject(content) /\ ~ParsedOf(content).ok

FailsShape(content) ==
  /\ ~HasNoJsonObject(content)
  /\ ParsedOf(content).ok
  /\ ~isValidResponse(ParsedOf(content).v)

Malformed(content) ==
  HasNoJsonObject(content) \/ IsUnparsable(content) \/ FailsShape(content)

\* One thread with one comment, "BUG" and 1.0, located in the file
IsDiagnosticComment(c) ==
  /\ c.t = "obj"
  /\ Get(c, K_issueType) = JStr(<<"BUG">>)
  /\ Get(c, K_confidenceScore) = JNum(100)

IsDiagnosticThread(thread, filePath) ==
  /\ Get(Get(thread, K_threadContext), K_filePath) = JStr(filePath)
  /\ Len(Get(thread, K_comments).e) = 1
  /\ IsDiagnosticComment(Get(thread, K_comments).e[1])

IsDiagnostic(response, filePath) ==
  /\ Len(response.threads) = 1
  /\ IsDiagnosticThread(response.threads[1], filePath)

\* The findings of file k in a list
FindingsFrom(fs, k) == SelectSeq(fs, LAMBDA f : f.origin[1] = k)

\* f duplicates a previous comment or a finding kept before it
IsDuplicate(f) ==
  \/ SignatureOf(f) \in previousSignaturesOf(PreviousOf(input))
  \/ \E j \in 1..Len(findings) :
        Before(findings[j].origin, f.origin) /\ SignatureOf(findings[j]) = SignatureOf(f)

IsDiagnosticFinding(f, k) ==
  /\ f.origin = <<k, 1>>
  /\ f.filePath = normalizePath(Files[k].path)
  /\ f.category = Some("BUG")
  /\ f.severity = "high"
  /\ f.confidence = Some(100)

\* File k has exactly one finding, in findings unless it is a duplicate
OneDiagnosticFinding(k) ==
  /\ Len(FindingsFrom(findings, k)) + Len(FindingsFrom(filteredOut, k)) = 1
  /\ \A j \in 1..Len(findings) :
        findings[j].origin[1] = k =>
          IsDiagnosticFinding(findings[j], k) /\ ~IsDuplicate(findings[j])
  /\ \A j \in 1..Len(filteredOut) :
        filteredOut[j].origin[1] = k =>
          IsDiagnosticFinding(filteredOut[j], k) /\ IsDuplicate(filteredOut[j])

(***************************************************************************)
(* C11: when the call of the model succeeds and its output holds no JSON   *)
(* object, is not parsable or fails the shape validation, the client       *)
(* resolves with one thread of one comment, "BUG" with confidence 1.0, for *)
(* the requested file; reviewCode then has one finding for the file (in    *)
(* findings, or in filteredOut when it duplicates a previous comment or an *)
(* earlier finding), has moved on to the next file, and fails only when a  *)
(* call of the model is rejected; a report is made after every file was    *)
(* reviewed.                                                               *)
(***************************************************************************)
C11_MalformedOutputGivesDiagnostic ==
  /\ \A k \in 1..Len(client.log) :
        (client.log[k].viaModel /\ Malformed(client.log[k].content)) =>
          /\ IsDiagnostic(client.log[k].response, client.log[k].request.filePath)
          /\ client.log[k].request.filePath = normalizePath(Files[k].path)
          /\ OneDiagnosticFinding(k)
          /\ fileIndex > k
  /\ (client.pc = "returned" /\ client.viaModel /\ Malformed(client.content)) =>
        IsDiagnostic(client.response, Val(client.request).filePath)
  /\ pc = "failed" => rejectedCall # 0
  /\ (pc = "done" /\ ~NoFiles(input)) => Len(client.log) = Len(Files)

\* A completed run of three files in which the output for the first file was
\* malformed: its diagnostic is in findings and the other files were reviewed
C11_Witness ==
  /\ pc = "done"
  /\ Len(Files) = 3
  /\ client.log[1].viaModel
  /\ Malformed(client.log[1].content)
  /\ Len(FindingsFrom(findings, 1)) = 1
  /\ client.log[2].viaModel /\ ~Malformed(client.log[2].content)
  /\ Len(FindingsFrom(findings, 2)) > 0
  /\ client.log[3].viaModel /\ FailsShape(client.log[3].content)
  /\ Len(FindingsFrom(filteredOut, 3)) = 1

\* The comments of the threads of a parsed output or of a response, in order
CommentsOfThreads(threads) ==
  Flatten([i \in 1..Len(threads) |-> Get(threads[i], K_comments).e])

RawComments(content) == CommentsOfThreads(Get(ParsedOf(content).v, K_threads).e)

\* The output is taken as the response: its threads are returned
Accepted(content) ==
  /\ ~Malformed(content)
  /\ \A k \in 1..Len(RawComments(content)) : CanNormalize(RawComments(content)[k])

\* A score as returned: missing, or a number of [0, 1]
InUnitInterval(score) ==
  score.t = "undefined" \/ (score.t = "num" /\ score.n >= 0 /\ score.n <= 100)

\* The returned score of a raw score that is missing, null or a number
NormalizedFrom(raw, returned) ==
  /\ raw.t \in {"undefined", "null"} => returned.t = "undefined"
  /\ (raw.t = "num" /\ raw.n > 100) =>
        /\ returned.t = "num"
        /\ IF raw.n > 1000 THEN returned.n = 100 ELSE 10 * returned.n = raw.n
  /\ (raw.t = "num" /\ raw.n <= 100) =>
        /\ returned.t = "num"
        /\ returned.n = (IF raw.n < 0 THEN 0 ELSE raw.n)

ScoreOf(comment) == Get(comment, K_confidenceScore)

(***************************************************************************)
(* C12: in the threads the client returns, a missing score is missing, a   *)
(* score above 1 is divided by 10, the result is clamped to [0, 1] (8      *)
(* gives 0.8, 1.4 gives 0.14, -0.2 gives 0), and every defined score lies  *)
(* in [0, 1].                                                              *)
(***************************************************************************)
C12_ScoresNormalized ==
  /\ normalizeConfidence(JNum(800)) = JNum(80)
  /\ normalizeConfidence(JNum(140)) = JNum(14)
  /\ normalizeConfidence(JNum(-20)) = JNum(0)
  /\ client.pc = "returned" =>
        \A k \in 1..Len(CommentsOfThreads(client.response.threads)) :
          InUnitInterval(ScoreOf(CommentsOfThreads(client.response.threads)[k]))
  /\ (client.pc = "returned" /\ client.viaModel /\ Accepted(client.content)) =>
        \A k \in 1..Len(RawComments(client.content)) :
          NormalizedFrom(ScoreOf(RawComments(client.content)[k]),
                         ScoreOf(CommentsOfThreads(client.response.threads)[k]))

\* C12 for the scores of an output that are numbers, null or missing: the
\* part of the statement that the code keeps
C12_NumbersNormalized ==
  /\ normalizeConfidence(JNum(800)) = JNum(80)
  /\ normalizeConfidence(JNum(140)) = JNum(14)
  /\ normalizeConfidence(JNum(-20)) = JNum(0)
  /\ (client.pc = "returned" /\ client.viaModel /\ Accepted(client.content)) =>
        \A k \in 1..Len(RawComments(client.content)) :
          /\ NormalizedFrom(ScoreOf(RawComments(client.content)[k]),
                            ScoreOf(CommentsOfThreads(client.response.threads)[k]))
          /\ ScoreOf(RawComments(client.content)[k]).t \in {"undefined", "null", "num"} =>
                InUnitInterval(ScoreOf(CommentsOfThreads(client.response.threads)[k]))

\* The client has returned the threads of an output with the raw scores -0.2,
\* null, 0.5, 1 and 85
C12_Witness ==
  /\ client.pc = "returned"
  /\ client.content = Some(Out_Scores2)
  /\ Len(client.response.threads) = 2

(***************************************************************************)
(* Definitions shared by the properties of fixThreadPositions              *)
(***************************************************************************)
\* The records of the first file of a diff
RecordsOf(diff) ==
  IF Len(diff.files) = 0 THEN <<>>
  ELSE Flatten([c \in 1..Len(diff.files[1].chunks) |-> diff.files[1].chunks[c].changes])

IsEligible(record, right) ==
  record.type = "UnchangedLine" \/ record.type = (IF right THEN "AddedLine" ELSE "DeletedLine")

\* The indices of the eligible records of a side that contain the text
Candidates(diff, text, right) ==
  {i \in 1..Len(RecordsOf(diff)) :
     IsEligible(RecordsOf(diff)[i], right) /\ Includes(RecordsOf(diff)[i].content, text)}

LineOn(record, right) == IF right THEN record.lineAfter ELSE record.lineBefore

StartOf(ctx, right) == IF right THEN ctx.rightFileStart ELSE ctx.leftFileStart
EndOf(ctx, right) == IF right THEN ctx.rightFileEnd ELSE ctx.leftFileEnd

HasSnippet(start) ==
  IsDefined(start) /\ IsDefined(Val(start).snippet) /\ Len(Val(Val(start).snippet)) > 0

SnippetLines(start) == SplitLines(Val(Val(start).snippet))

\* The first snippet line of the side is in an eligible record
FirstLineMatches(ctx, diff, right) ==
  /\ HasSnippet(StartOf(ctx, right))
  /\ Candidates(diff, SnippetLines(StartOf(ctx, right))[1], right) # {}

OneLineMatch(ctx, diff, right) ==
  FirstLineMatches(ctx, diff, right) /\ Len(SnippetLines(StartOf(ctx, right))) = 1

\* start and end are on the line of a candidate record, at the text
SetOnRecord(start, end, diff, text, right) ==
  \E i \in Candidates(diff, text, right) :
    /\ start.line = LineOn(RecordsOf(diff)[i], right)
    /\ start.offset = IndexOf(RecordsOf(diff)[i].content, text) + 1
    /\ end.line = start.line
    /\ end.offset = start.offset + Len(text)

InputContext(k) == Val(fixer.threads[k].threadContext)
FirstContext(k) == Val(fixer.first[k].threadContext)

Located(k) == IsDefined(fixer.threads[k].threadContext)

\* The side of thread k as returned has start and end on a candidate record
SideSetOnRecord(k, right) ==
  /\ IsDefined(EndOf(FirstContext(k), right))
  /\ SetOnRecord(Val(StartOf(FirstContext(k), right)), Val(EndOf(FirstContext(k), right)),
                 fixer.diff, SnippetLines(StartOf(InputContext(k), right))[1], right)

(***************************************************************************)
(* C13: for every side whose start position has a one-line snippet that is *)
(* in an eligible record of the diff, fixThreadPositions returns with      *)
(* start.line the line of such a record on that side, start.offset the     *)
(* 1-based index of the snippet in the record, end.line the same line and  *)
(* end.offset = start.offset + the length of the snippet.                  *)
(***************************************************************************)
C13_SingleLineCorrection ==
  fixer.pc \in {"fixed", "refixed", "raised"} =>
    \A k \in 1..Len(fixer.threads) : \A right \in BOOLEAN :
      (Located(k) /\ OneLineMatch(InputContext(k), fixer.diff, right)) =>
        fixer.pc # "raised" /\ SideSetOnRecord(k, right)

\* C13 for the sides that have an end position, when the function returns;
\* it raises exactly when a side with a matching first line has none
C13_SingleLineCorrectionWithEnd ==
  /\ fixer.pc \in {"fixed", "refixed"} =>
        \A k \in 1..Len(fixer.threads) : \A right \in BOOLEAN :
          (Located(k) /\ OneLineMatch(InputContext(k), fixer.diff, right)) =>
            SideSetOnRecord(k, right)
  /\ fixer.pc \in {"fixed", "raised"} =>
        (fixer.pc = "raised" <=>
           \E k \in 1..Len(fixer.threads) : \E right \in BOOLEAN :
             /\ Located(k)
             /\ FirstLineMatches(InputContext(k), fixer.diff, right)
             /\ ~IsDefined(EndOf(InputContext(k), right)))

\* The right side of a thread with the approximate line 1 and the snippet
\* "x=1" was moved to line 2 of DiffB, where the snippet is at offset 2
C13_Witness ==
  /\ fixer.pc = "fixed"
  /\ fixer.diff = DiffB
  /\ Len(fixer.threads) = 1
  /\ Located(1)
  /\ OneLineMatch(InputContext(1), fixer.diff, TRUE)
  /\ Val(InputContext(1).rightFileStart).line = 1
  /\ Val(FirstContext(1).rightFileStart).line = 2
  /\ Val(FirstContext(1).rightFileStart).offset = 2
  /\ Val(FirstContext(1).rightFileEnd).line = 2
  /\ Val(FirstContext(1).rightFileEnd).offset = 5

\* Nothing to correct on the side: no snippet text on the start position, or
\* a first snippet line that is in no eligible record
Degrades(ctx, diff, right) == ~FirstLineMatches(ctx, diff, right)

\* The context with the positions of one side only
OnlySide(ctx, right) ==
  IF right THEN [ctx EXCEPT !.leftFileStart = None, !.leftFileEnd = None]
           ELSE [ctx EXCEPT !.rightFileStart = None, !.rightFileEnd = None]

\* The context fixThreadPositions returns for a thread given alone
FixedAlone(ctx, diff) ==
  Val(fixThreadPositions(<<Thread(ctx, <<>>)>>, diff).threads[1].threadContext)

SameSide(ctx1, ctx2, right) ==
  StartOf(ctx1, right) = StartOf(ctx2, right) /\ EndOf(ctx1, right) = EndOf(ctx2, right)

(***************************************************************************)
(* C14: a side whose start position has no snippet text, or whose first    *)
(* snippet line is in no eligible record of the diff, is returned as it    *)
(* was supplied and does not make fixThreadPositions raise: when every     *)
(* side is such a side (as for an empty diff or an empty list of threads)  *)
(* the threads are returned unchanged, a raise comes only from a side with *)
(* a match, and every side is returned as if it were given alone.          *)
(***************************************************************************)
C14_GracefulDegradation ==
  fixer.pc \in {"fixed", "refixed", "raised"} =>
    /\ (\A k \in 1..Len(fixer.threads) : \A right \in BOOLEAN :
          Located(k) => Degrades(InputContext(k), fixer.diff, right))
         => (fixer.pc # "raised" /\ fixer.first = fixer.threads)
    /\ fixer.pc = "raised" =>
         \E k \in 1..Len(fixer.threads) : \E right \in BOOLEAN :
           Located(k) /\ ~Degrades(InputContext(k), fixer.diff, right)
    /\ fixer.pc # "raised" =>
         /\ Len(fixer.first) = Len(fixer.threads)
         /\ \A k \in 1..Len(fixer.threads) :
              IF Located(k)
              THEN \A right \in BOOLEAN :
                     /\ Degrades(InputContext(k), fixer.diff, right) =>
                          SameSide(FirstContext(k), InputContext(k), right)
                     /\ SameSide(FirstContext(k),
                                 FixedAlone(OnlySide(InputContext(k), right), fixer.diff), right)
              ELSE fixer.first[k] = fixer.threads[k]

\* A thread whose right side has a snippet that is not in DiffB and whose
\* left side has one that is: the right side is returned as supplied, the
\* left side is moved
C14_Witness ==
  /\ fixer.pc = "fixed"
  /\ fixer.diff = DiffB
  /\ Len(fixer.threads) = 1
  /\ Located(1)
  /\ HasSnippet(InputContext(1).rightFileStart)
  /\ IsDefined(InputContext(1).rightFileEnd)
  /\ Degrades(InputContext(1), fixer.diff, TRUE)
  /\ SameSide(FirstContext(1), InputContext(1), TRUE)
  /\ ~Degrades(InputContext(1), fixer.diff, FALSE)
  /\ ~SameSide(FirstContext(1), InputContext(1), FALSE)

\* The context of thread k after the second application
SecondContext(k) == Val(fixer.second[k].threadContext)

\* Line and offset of an optional position (<<>> when there is none)
LineAndOffset(position) ==
  IF IsDefined(position) THEN <<Val(position).line, Val(position).offset>> ELSE <<>>

(***************************************************************************)
(* C15: fixThreadPositions applied, with the same diff, to the threads it  *)
(* returned does not raise and returns them with every line and every      *)
(* offset, of start and end on both sides of every thread, as they were.   *)
(***************************************************************************)
C15_Idempotent ==
  /\ fixer.pc = "fixed" => ~fixThreadPositions(fixer.first, fixer.diff).threw
  /\ fixer.pc = "refixed" =>
       /\ Len(fixer.second) = Len(fixer.first)
       /\ \A k \in 1..Len(fixer.first) :
            IF IsDefined(fixer.first[k].threadContext)
            THEN /\ IsDefined(fixer.second[k].threadContext)
                 /\ \A right \in BOOLEAN :
                      /\ LineAndOffset(StartOf(SecondContext(k), right))
                           = LineAndOffset(StartOf(FirstContext(k), right))
                      /\ LineAndOffset(EndOf(SecondContext(k), right))
                           = LineAndOffset(EndOf(FirstContext(k), right))
            ELSE fixer.second[k] = fixer.first[k]

\* A snippet of two lines on DiffB moved start and end the first time, and
\* the second application has returned
C15_Witness ==
  /\ fixer.pc = "refixed"
  /\ fixer.diff = DiffB
  /\ \E k \in 1..Len(fixer.threads) : \E right \in BOOLEAN :
       /\ Located(k)
       /\ FirstLineMatches(InputContext(k), fixer.diff, right)
       /\ Len(SnippetLines(StartOf(InputContext(k), right))) > 1
       /\ LineAndOffset(StartOf(FirstContext(k), right))
            # LineAndOffset(StartOf(InputContext(k), right))
       /\ LineAndOffset(EndOf(FirstContext(k), right))
            # LineAndOffset(EndOf(InputContext(k), right))
       /\ SecondContext(k) = FirstContext(k)

(***************************************************************************)
(* Definitions shared by the properties of path matching                   *)
(***************************************************************************)
PathOfPrevious(c) == IF IsDefined(c.filePath) THEN Val(c.filePath) ELSE <<>>

\* The two paths are the same up to a leading "/"
SamePath(p, q) == normalizePath(p) = normalizePath(q)

BeginsWithSeparator(path) == Len(path) > 0 /\ path[1] = "/"

\* Every path sent to the LLM or reported begins with "/"
PathsNormalized ==
  /\ \A k \in 1..Len(calls) : BeginsWithSeparator(calls[k].filePath)
  /\ \A f \in Range(findings) \cup Range(filteredOut) : BeginsWithSeparator(f.filePath)
  /\ IsDefined(report) =>
       \A f \in Range(Val(report).findings) \cup Range(Val(report).filteredOut) :
         BeginsWithSeparator(f.filePath)

\* The exclusion list of the last request holds the content of every
\* previous comment of the file, whichever way the two paths are written
PreviousSelectedByPath ==
  pc = "await" =>
    \A c \in Range(PreviousOf(input)) :
      SamePath(PathOfPrevious(c), Files[fileIndex].path)
        => c.content \in Range(calls[Len(calls)].existingComments)

\* No finding kept after the loop body repeats, on the same path up to a
\* leading "/", the trimmed content of a previous comment
NoKeptFindingRepeatsPrevious ==
  Folded =>
    \A f \in Range(findings) : \A c \in Range(PreviousOf(input)) :
      ~(SamePath(PathOfPrevious(c), f.filePath) /\ Trim(c.content) = Trim(f.content))

\* The same, for previous comments whose path is written with the leading "/"
NoKeptFindingRepeatsPreviousAsWritten ==
  Folded =>
    \A f \in Range(findings) : \A c \in Range(PreviousOf(input)) :
      ~(PathOfPrevious(c) = f.filePath /\ Trim(c.content) = Trim(f.content))

(***************************************************************************)
(* C16: reviewCode treats two paths that differ by a leading "/" only as   *)
(* the same path where it matches previous comments: the exclusion list of *)
(* a file holds the file's previous comments, and no kept finding repeats  *)
(* the trimmed content of a previous comment of its file, whichever way    *)
(* the paths are written; every filePath in a request to the LLM, in       *)
(* findings and in filteredOut begins with "/".                            *)
(***************************************************************************)
C16_PathsMatchUpToLeadingSeparator ==
  PathsNormalized /\ PreviousSelectedByPath /\ NoKeptFindingRepeatsPrevious

\* What holds of the code: paths are normalized in requests and findings,
\* previous comments are selected for the exclusion list up to the leading
\* "/", and a finding is removed when the previous comment's path is
\* written as the finding's (normalized) path is
C16_PathsMatchAsWritten ==
  PathsNormalized /\ PreviousSelectedByPath /\ NoKeptFindingRepeatsPreviousAsWritten

\* A finding for the file "a" (reported as "/a") is kept although a
\* previous comment on "a" has its trimmed content
C16_Witness ==
  /\ Completed
  /\ \E f \in Range(Val(report).findings) : \E c \in Range(PreviousOf(input)) :
       /\ PathOfPrevious(c) = <<"a">>
       /\ f.filePath = <<"/", "a">>
       /\ Trim(c.content) = Trim(f.content)

\* The severity of the four issue types, in whatever case they are written
SeverityByType(category) ==
  IF ~IsDefined(category) THEN "medium"
  ELSE CASE Val(category) \in {"SECURITY", "security"} -> "critical"
         [] Val(category) \in {"BUG", "bug", "Bug"} -> "high"
         [] Val(category) \in {"PERFORMANCE", "performance", "Performance"} -> "high"
         [] OTHER -> "medium"

(***************************************************************************)
(* C17: every finding reviewCode produces has the severity of its issue    *)
(* type: critical for SECURITY, high for BUG and PERFORMANCE, in whatever  *)
(* case the type is written, and medium for BEST_PRACTICE, for any other   *)
(* type and for a missing one; no finding has the severity low.            *)
(***************************************************************************)
C17_SeverityOfIssueType ==
  /\ \A f \in Range(findings) \cup Range(filteredOut) :
       f.severity = SeverityByType(f.category) /\ f.severity # "low"
  /\ IsDefined(report) =>
       \A f \in Range(Val(report).findings) \cup Range(Val(report).filteredOut) :
         f.severity = SeverityByType(f.category) /\ f.severity # "low"

\* A report with findings of the types Bug, low, BEST_PRACTICE, a missing
\* type and SECURITY
C17_Witness ==
  /\ Completed
  /\ \A c \in {Some("Bug"), Some("low"), Some("BEST_PRACTICE"), None, Some("SECURITY")} :
       \E f \in Range(Val(report).findings) \cup Range(Val(report).filteredOut) :
         f.category = c

(***************************************************************************)
(* Definitions shared by the properties of two invocations                 *)
(***************************************************************************)
\* The locals of the first invocation, as the fields of peer are
LocalsOfFirst ==
  [fileIndex |-> fileIndex, filteredOut |-> filteredOut, findings |-> findings,
   runComments |-> runComments, seenSignatures |-> seenSignatures,
   dedupeCriteriaMet |-> dedupeCriteriaMet, report |-> report, calls |-> calls]

LocalsOfSecond ==
  [fileIndex |-> peer.fileIndex, filteredOut |-> peer.filteredOut, findings |-> peer.findings,
   runComments |-> peer.runComments, seenSignatures |-> peer.seenSignatures,
   dedupeCriteriaMet |-> peer.dedupeCriteriaMet, report |-> peer.report, calls |-> peer.calls]

Settled(p) == p \in {"done", "failed"}

(***************************************************************************)
(* C18: two invocations of reviewCode with equal inputs, whose LLM clients *)
(* give equal responses, return equal reports (or both fail), however      *)
(* their steps interleave at the awaits and whether or not an invocation   *)
(* ran before; at the same point of the loop they hold equal latch,        *)
(* run-comment list, findings, filteredOut and signature set, and have     *)
(* sent equal requests.                                                    *)
(***************************************************************************)
C18_NoSharedState ==
  peer.input = input =>
    /\ (Settled(pc) /\ Settled(peer.pc)) => (peer.pc = pc /\ peer.report = report)
    /\ (peer.pc = pc /\ peer.fileIndex = fileIndex) => LocalsOfSecond = LocalsOfFirst

\* Both invocations have returned equal reports with kept and removed
\* findings for two files; the second was made after another had returned
C18_Witness ==
  /\ pc = "done"
  /\ peer.pc = "done"
  /\ peer.before
  /\ peer.input = input
  /\ Len(Files) = 2
  /\ peer.report = report
  /\ Len(Val(report).findings) > 0
  /\ Len(Val(report).filteredOut) > 0

(***************************************************************************)
(* Definitions shared by the properties of the Azure DevOps task           *)
(***************************************************************************)
\* The range of the stored marker, {0, 0} when there is none
StoredMarker == getLastReviewedIteration(task.markerAtStart)

\* The run is past computeReviewRange and has gone on to the review
Reviewing == task.pc \in {"files", "review", "publish", "save"}

\* The run has ended at the requeue check of run()
SkippedAsRequeue ==
  task.pc = "ended" /\ task.decided /\ task.isRequeued /\ ~task.allowRequeue

(***************************************************************************)
(* C20: the run is a requeue exactly when the end of the stored marker is  *)
(* the latest iteration id it read. A requeue with allow_requeue = false   *)
(* ends as Succeeded with no diffs collected, no review, nothing published *)
(* and the marker as it was, and only then is the review skipped; a        *)
(* requeue with allow_requeue = true reviews the stored range; any other   *)
(* run reviews {start: marker.end, end: latest}.                           *)
(***************************************************************************)
C20_RequeueProtection ==
  /\ task.decided => (task.isRequeued <=> StoredMarker.end = task.latestRead)
  /\ SkippedAsRequeue =>
       /\ task.result = "Succeeded"
       /\ task.collected = <<>>
       /\ task.reviewed = 0
       /\ task.published = 0
       /\ task.saved = 0
       /\ task.marker = task.markerAtStart
  /\ Reviewing =>
       /\ task.decided
       /\ ~(task.isRequeued /\ ~task.allowRequeue)
       /\ task.reviewRange = IF task.isRequeued THEN StoredMarker
                              ELSE IterationRange(StoredMarker.end, task.latestRead)
  /\ (task.pc = "ended" /\ task.decided /\ ~SkippedAsRequeue) => Len(task.collected) = 1
  /\ \A k \in 1..Len(task.collected) : task.collected[k] = task.reviewRange

\* A second run of the build on the marker {0, 2} the first run stored,
\* with no push in between and allow_requeue = true, is reviewing {0, 2}
C20_Witness ==
  /\ task.pc = "publish"
  /\ task.runs = 2
  /\ task.allowRequeue
  /\ task.isRequeued
  /\ task.markerAtStart = StoredRange(IterationRange(0, 2))
  /\ task.reviewRange = IterationRange(0, 2)
  /\ task.collected = <<IterationRange(0, 2)>>

\* A second run with allow_requeue = false has ended at the requeue check
C20_WitnessSkipped ==
  /\ SkippedAsRequeue
  /\ task.runs = 2
  /\ task.markerAtStart = StoredRange(IterationRange(0, 2))
  /\ task.result = "Succeeded"

(***************************************************************************)
(* Definitions shared by the properties of the token budget                *)
(***************************************************************************)
Budget == client.config.maxInputTokens

\* The prompt of the request has more tokens than the budget
OverBudget(request) == TokenCount(FullPrompt(request)) > Val(Budget)

\* A settled call that returned no thread without a call of the model
ShortCircuited(entry) == ~entry.viaModel /\ entry.response = [threads |-> <<>>]

\* The findings made from the comments of file k
FindingsOfFile(k) ==
  {f \in Range(findings) \cup Range(filteredOut) : f.origin[1] = k}

\* With a budget (hasBudget) every call whose prompt is over it returns no
\* thread without calling the model or raising, its file gives no finding
\* and the loop goes on; without one no call is short-circuited
GuardrailFor(hasBudget) ==
  IF hasBudget
  THEN /\ client.pc \in {"create", "rejected"} => ~OverBudget(Val(client.request))
       /\ (client.pc = "returned" /\ OverBudget(Val(client.request)))
            => (~client.viaModel /\ client.response = [threads |-> <<>>])
       /\ \A k \in 1..Len(client.log) :
            OverBudget(client.log[k].request)
              => /\ ShortCircuited(client.log[k])
                 /\ FindingsOfFile(k) = {}
                 /\ fileIndex > k
  ELSE /\ client.pc = "returned" => client.viaModel
       /\ \A k \in 1..Len(client.log) : client.log[k].viaModel

(***************************************************************************)
(* C19: when maxInputTokens is configured and the prompt of a request has  *)
(* more tokens, reviewCode of the client calls no model, raises no error   *)
(* and returns no thread, the file gives no finding and the run goes on    *)
(* with the next file; when it is not configured no call is                *)
(* short-circuited.                                                        *)
(***************************************************************************)
C19_TokenBudgetGuardrail == GuardrailFor(IsDefined(Budget))

\* What holds of the code: the guardrail acts for a budget other than 0,
\* and a budget of 0 is no budget
C19_NonZeroBudgetGuardrail == GuardrailFor(IsDefined(Budget) /\ Val(Budget) # 0)

\* With the budget 45 the file "a" was short-circuited and the file "/b"
\* was reviewed by the model
C19_Witness ==
  /\ Budget = Some(45)
  /\ Len(client.log) = 2
  /\ ShortCircuited(client.log[1])
  /\ OverBudget(client.log[1].request)
  /\ client.log[2].viaModel
  /\ FindingsOfFile(1) = {}
  /\ FindingsOfFile(2) # {}

\* With the budget 0 the model was called
C19_WitnessZero ==
  /\ Budget = Some(0)
  /\ Len(client.log) > 0
  /\ client.log[1].viaModel

(***************************************************************************)
(* Definitions shared by the properties of filterFilesForReview            *)
(***************************************************************************)
\* The extensions an option lists and the globs an option holds
Listed(option) == Range(parseInputToArray(option))

HasBinaryExtension(file) ==
  \E b \in binaryExtensions :
    Len(file) > Len(b) /\ SubSeq(file, Len(file) - Len(b), Len(file)) = <<".">> \o b

HasExtensionOf(file, option) ==
  \E e \in Listed(option) :
    /\ Len(e) > 0
    /\ Len(file) >= Len(e)
    /\ SubSeq(file, Len(file) - Len(e) + 1, Len(file)) = e
    /\ \A i \in 2..Len(e) : e[i] # "."

MatchesGlobOf(file, option) ==
  \E g \in Listed(option) : GlobMatches(g, 1, file, 1)

IncludeGiven(o) == IsGiven(o.fileExtensions) \/ IsGiven(o.filesToInclude)
ExcludeGiven(o) == IsGiven(o.fileExtensionExcludes) \/ IsGiven(o.filesToExclude)

MeetsInclude(file, o) ==
  HasExtensionOf(file, o.fileExtensions) \/ MatchesGlobOf(file, o.filesToInclude)

MeetsExclude(file, o) ==
  HasExtensionOf(file, o.fileExtensionExcludes) \/ MatchesGlobOf(file, o.filesToExclude)

\* The file is to be kept
Kept(file, o) ==
  /\ ~HasBinaryExtension(file)
  /\ IncludeGiven(o) => MeetsInclude(file, o)
  /\ ExcludeGiven(o) => ~MeetsExclude(file, o)

(***************************************************************************)
(* C21: filterFilesForReview returns, in their order, the files that have  *)
(* no binary extension, that have a listed extension or match an include   *)
(* glob when an include option is given, and that have no excluded         *)
(* extension and match no exclude glob when an exclude option is given;    *)
(* without options every file without binary extension is returned, and a  *)
(* file that meets an include and an exclude rule is not.                  *)
(***************************************************************************)
C21_FilterKeepsExactly ==
  selection.pc = "returned" =>
    /\ selection.result = SelectSeq(selection.options.files,
                                    LAMBDA file : Kept(file, selection.options))
    /\ (~IncludeGiven(selection.options) /\ ~ExcludeGiven(selection.options))
         => selection.result = SelectSeq(selection.options.files,
                                         LAMBDA file : ~HasBinaryExtension(file))
    /\ \A file \in Range(selection.options.files) :
         (IncludeGiven(selection.options) /\ MeetsInclude(file, selection.options)
            /\ ExcludeGiven(selection.options) /\ MeetsExclude(file, selection.options))
           => file \notin Range(selection.result)

\* From the seven files, with the extension ".js" or the glob "*.txt" to
\* include and the extension ".js" or the globs "e.*, m*" to exclude, only
\* b.txt is returned: src/d.js and a.js meet both rules
C21_Witness ==
  /\ selection.pc = "returned"
  /\ selection.options.files = AllFileNames
  /\ selection.options.fileExtensions = Some(Ext_js)
  /\ selection.options.filesToInclude = Some(Glob_txt)
  /\ selection.options.fileExtensionExcludes = Some(Ext_js)
  /\ selection.options.filesToExclude = Some(Glob_e_m)
  /\ selection.result = <<File_b_txt>>

\* The comment passes the confidence filter of the run's policy
PassesPolicy(c) ==
  \/ ~input.policy.confidence.enabled
  \/ ~IsDefined(c.confidenceScore)
  \/ Val(c.confidenceScore) >= input.policy.confidence.minimum

\* How many comments generated for files 1..n pass the confidence filter
PassingUpTo(n) ==
  Cardinality({o \in OriginsUpTo(n) : PassesPolicy(ResponseComments(stub[o[1]])[o[2]])})

(***************************************************************************)
(* C22: while the call for file k is outstanding in a run with cross-file  *)
(* dedup enabled whose latch was not set before file k, the latch is set   *)
(* if and only if the number of comments generated for files 1..k-1 that   *)
(* pass the policy's confidence filter (comments without a score pass, all *)
(* pass when the filter is disabled) is strictly greater than              *)
(* dedupeAcrossFiles.threshold; the comments of file k are not counted.    *)
(***************************************************************************)
C22_LatchTripRule ==
  (pc = "await" /\ input.policy.dedupeAcrossFiles.enabled /\ ~last.latchBefore) =>
    (dedupeCriteriaMet <=>
       PassingUpTo(fileIndex - 1) > input.policy.dedupeAcrossFiles.threshold)

\* The latch is set on reaching the third file: the first file produced as
\* many passing comments as the threshold (which did not set the latch for
\* the second file), and a comment below the minimum was generated too.
C22_Witness ==
  /\ pc = "await" /\ fileIndex = 3
  /\ input.policy.dedupeAcrossFiles.enabled /\ input.policy.confidence.enabled
  /\ ~last.latchBefore /\ dedupeCriteriaMet
  /\ PassingUpTo(1) = input.policy.dedupeAcrossFiles.threshold
  /\ PassingUpTo(1) > 0
  /\ PassingUpTo(2) < Len(GeneratedUpTo(2))

\* The call for the second file is outstanding with the latch unset: the
\* first file produced exactly as many passing comments as the threshold.
C22_WitnessAtThreshold ==
  /\ pc = "await" /\ fileIndex = 2
  /\ input.policy.dedupeAcrossFiles.enabled
  /\ ~dedupeCriteriaMet
  /\ PassingUpTo(1) = input.policy.dedupeAcrossFiles.threshold
  /\ Len(GeneratedUpTo(1)) > PassingUpTo(1)

\* The distance of record i's line on the side from a line number
DistanceOf(diff, i, right, line) == Abs(LineOn(RecordsOf(diff)[i], right) - line)

\* The candidates at minimal distance from the line
ClosestCandidates(diff, text, right, line) ==
  {i \in Candidates(diff, text, right) :
     \A j \in Candidates(diff, text, right) :
       DistanceOf(diff, i, right, line) <= DistanceOf(diff, j, right, line)}

\* The first of them in diff order
FirstClosest(diff, text, right, line) ==
  CHOOSE i \in ClosestCandidates(diff, text, right, line) :
    \A j \in ClosestCandidates(diff, text, right, line) : i <= j

\* The start of the side as returned is on record i, at the text
StartOnRecord(k, right, i, text) ==
  /\ Val(StartOf(FirstContext(k), right)).line = LineOn(RecordsOf(fixer.diff)[i], right)
  /\ Val(StartOf(FirstContext(k), right)).offset
       = IndexOf(RecordsOf(fixer.diff)[i].content, text) + 1

(***************************************************************************)
(* C23: when fixThreadPositions has returned, the start of every side      *)
(* whose first snippet line is contained in a record of that side that is  *)
(* Unchanged or of the side's changed type (Added right, Deleted left) is  *)
(* on such a record whose line on that side is at minimal distance from    *)
(* the start line supplied, the first in diff order among those at that    *)
(* distance, at the position of the snippet line in the record's content.  *)
(***************************************************************************)
C23_CandidateChoice ==
  fixer.pc = "fixed" =>
    \A k \in 1..Len(fixer.threads) :
      Located(k) =>
        \A right \in BOOLEAN :
          FirstLineMatches(InputContext(k), fixer.diff, right) =>
            /\ StartOnRecord(k, right,
                 FirstClosest(fixer.diff, SnippetLines(StartOf(InputContext(k), right))[1],
                              right, Val(StartOf(InputContext(k), right)).line),
                 SnippetLines(StartOf(InputContext(k), right))[1])
            /\ IsEligible(RecordsOf(fixer.diff)[
                 FirstClosest(fixer.diff, SnippetLines(StartOf(InputContext(k), right))[1],
                              right, Val(StartOf(InputContext(k), right)).line)], right)

\* The right start was supplied on line 3 with the snippet "x=1", which the
\* diff has on the right lines 2 (added, " x=1;") and 4 (unchanged), both at
\* distance 1, and in a deleted line: the start returned is line 2, offset 2.
C23_Witness ==
  /\ fixer.pc = "fixed"
  /\ fixer.diff = DiffB
  /\ Len(fixer.threads) = 1 /\ Located(1)
  /\ IsDefined(InputContext(1).rightFileStart)
  /\ Val(InputContext(1).rightFileStart).line = 3
  /\ Val(InputContext(1).rightFileStart).snippet = Some(Str_x1)
  /\ ClosestCandidates(DiffB, Str_x1, TRUE, 3) = {3, 5}
  /\ Val(FirstContext(1).rightFileStart).line = 2
  /\ Val(FirstContext(1).rightFileStart).offset = 2

\* The side of thread k has a snippet of several lines whose first line
\* matched, and an end position
MultiLineMatched(k, right) ==
  /\ FirstLineMatches(InputContext(k), fixer.diff, right)
  /\ Len(SnippetLines(StartOf(InputContext(k), right))) > 1
  /\ IsDefined(EndOf(InputContext(k), right))

LastSnippetLine(k, right) ==
  SnippetLines(StartOf(InputContext(k), right))[Len(SnippetLines(StartOf(InputContext(k), right)))]

\* The end returned for the side is on record i, behind the text
EndOnRecord(k, right, i, text) ==
  /\ Val(EndOf(FirstContext(k), right)).line = LineOn(RecordsOf(fixer.diff)[i], right)
  /\ Val(EndOf(FirstContext(k), right)).offset
       = IndexOf(RecordsOf(fixer.diff)[i].content, text) + 1 + Len(text)

\* The end returned for the side is behind the first snippet line
EndOnStartLine(k, right) ==
  /\ Val(EndOf(FirstContext(k), right)).line = Val(StartOf(FirstContext(k), right)).line
  /\ Val(EndOf(FirstContext(k), right)).offset
       = Val(StartOf(FirstContext(k), right)).offset
           + Len(SnippetLines(StartOf(InputContext(k), right))[1])

\* The end of the side is where the search for the last snippet line from
\* the line `anchor` puts it
EndSearchedFrom(k, right, anchor) ==
  IF Candidates(fixer.diff, LastSnippetLine(k, right), right) = {}
  THEN EndOnStartLine(k, right)
  ELSE EndOnRecord(k, right,
                   FirstClosest(fixer.diff, LastSnippetLine(k, right), right, anchor),
                   LastSnippetLine(k, right))

(***************************************************************************)
(* C24 as stated: when fixThreadPositions has returned, on every side with *)
(* a snippet of several lines whose first line matched, the end is on the  *)
(* eligible record containing the last snippet line that is closest to the *)
(* end line supplied in the thread's end position, with offset the 1-based *)
(* index of that line in the record plus its length; without such a record *)
(* the end is on the start line at start.offset plus the length of the     *)
(* first snippet line.                                                     *)
(***************************************************************************)
C24_EndClosestToSuppliedEnd ==
  fixer.pc = "fixed" =>
    \A k \in 1..Len(fixer.threads) :
      Located(k) =>
        \A right \in BOOLEAN :
          MultiLineMatched(k, right) =>
            EndSearchedFrom(k, right, Val(EndOf(InputContext(k), right)).line)

\* C24 amended: when fixThreadPositions has returned, on every side with a
\* snippet of several lines whose first line matched, the end is on the
\* eligible record containing the last snippet line that is closest to the
\* line on which the first snippet line was found (the first in diff order
\* among the closest), with offset the 1-based index of that line in the
\* record plus its length; without such a record the end is on the start
\* line at start.offset plus the length of the first snippet line.
C24_EndClosestToFoundStart ==
  fixer.pc = "fixed" =>
    \A k \in 1..Len(fixer.threads) :
      Located(k) =>
        \A right \in BOOLEAN :
          MultiLineMatched(k, right) =>
            EndSearchedFrom(k, right, Val(StartOf(FirstContext(k), right)).line)

\* The snippet "x=1\ny=2" with the right start supplied on line 1 and the
\* right end on line 5: "x=1" is found on line 2, and the end is put on
\* line 3 although "y=2" is also on the supplied line 5.
C24_Witness ==
  /\ fixer.pc = "fixed"
  /\ fixer.diff = DiffB
  /\ Len(fixer.threads) = 1 /\ Located(1)
  /\ MultiLineMatched(1, TRUE)
  /\ LastSnippetLine(1, TRUE) = Str_y2
  /\ Val(InputContext(1).rightFileStart).line = 1
  /\ Val(InputContext(1).rightFileEnd).line = 5
  /\ Val(FirstContext(1).rightFileStart).line = 2
  /\ Val(FirstContext(1).rightFileEnd).line = 3
  /\ Val(FirstContext(1).rightFileEnd).offset = 4

\* fixThreadPositions rewrote the positions of the side of thread k
Rewritten(k, right) ==
  /\ FirstLineMatches(InputContext(k), fixer.diff, right)
  /\ IsDefined(EndOf(InputContext(k), right))

PositionsPositive(k, right) ==
  /\ Val(StartOf(FirstContext(k), right)).line >= 1
  /\ Val(StartOf(FirstContext(k), right)).offset >= 1
  /\ Val(EndOf(FirstContext(k), right)).line >= 1
  /\ Val(EndOf(FirstContext(k), right)).offset >= 1

StartNotAfterEnd(k, right) ==
  Val(StartOf(FirstContext(k), right)).line <= Val(EndOf(FirstContext(k), right)).line

(***************************************************************************)
(* C25: when fixThreadPositions has returned, on every side of every       *)
(* thread whose positions it rewrote, start.line <= end.line, and line and *)
(* offset of both positions are at least 1, for one-line and for           *)
(* multi-line snippets.                                                    *)
(***************************************************************************)
C25_StartNotAfterEnd ==
  fixer.pc = "fixed" =>
    \A k \in 1..Len(fixer.threads) :
      Located(k) =>
        \A right \in BOOLEAN :
          Rewritten(k, right) => (StartNotAfterEnd(k, right) /\ PositionsPositive(k, right))

\* What holds of the rewritten sides: lines and offsets are at least 1, and
\* the start is not after the end when the snippet has one line
C25_PositiveAndOrderedForOneLine ==
  fixer.pc = "fixed" =>
    \A k \in 1..Len(fixer.threads) :
      Located(k) =>
        \A right \in BOOLEAN :
          Rewritten(k, right) =>
            /\ PositionsPositive(k, right)
            /\ Len(SnippetLines(StartOf(InputContext(k), right))) = 1
                 => StartNotAfterEnd(k, right)

\* The snippet "x=1\ny=2" with the right start supplied on line 5: "x=1" is
\* found on line 4, and of the lines 3 and 5 with "y=2", both at distance
\* 1, the first is taken: the side is returned with start 4 and end 3.
C25_EndBeforeStart ==
  /\ fixer.pc = "fixed"
  /\ fixer.diff = DiffB
  /\ Len(fixer.threads) = 1 /\ Located(1)
  /\ Rewritten(1, TRUE)
  /\ Val(InputContext(1).rightFileStart).line = 5
  /\ Val(FirstContext(1).rightFileStart).line = 4
  /\ Val(FirstContext(1).rightFileEnd).line = 3

(***************************************************************************)
(* Definitions shared by the properties of the shape validation            *)
(***************************************************************************)
\* The client has returned after the output of the model was parsed
ReturnedParsed ==
  /\ client.pc = "returned"
  /\ client.viaModel
  /\ ~HasNoJsonObject(client.content)
  /\ ParsedOf(client.content).ok

HasLocation(thread) == Truthy(Get(Get(thread, K_threadContext), K_filePath))

HasCommentsArray(thread) == Get(thread, K_comments).t = "arr"

HasNumericStatus(thread) == Get(thread, K_status).t \in {"num", "nan"}

ThreadsArrayOf(parsed) == Get(parsed, K_threads).e

\* threads is an array and every thread has a location and a comments array
LocatedThreadsWithComments(parsed) ==
  /\ Get(parsed, K_threads).t = "arr"
  /\ \A i \in 1..Len(ThreadsArrayOf(parsed)) :
        HasLocation(ThreadsArrayOf(parsed)[i]) /\ HasCommentsArray(ThreadsArrayOf(parsed)[i])

\* ... and every thread has a status that is a number
LocatedThreadsWithStatusAndComments(parsed) ==
  /\ LocatedThreadsWithComments(parsed)
  /\ \A i \in 1..Len(ThreadsArrayOf(parsed)) : HasNumericStatus(ThreadsArrayOf(parsed)[i])

EveryCommentIsObject(parsed) ==
  \A i \in 1..Len(ThreadsArrayOf(parsed)) :
    \A k \in 1..Len(Get(ThreadsArrayOf(parsed)[i], K_comments).e) :
      Get(ThreadsArrayOf(parsed)[i], K_comments).e[k].t = "obj"

\* The comment as returned is the parsed one with its score normalized
CommentReturned(raw, returned) ==
  /\ Get(returned, K_content) = Get(raw, K_content)
  /\ Get(returned, K_issueType) = Get(raw, K_issueType)
  /\ ScoreOf(returned) = normalizeConfidence(ScoreOf(raw))

ThreadReturned(raw, returned) ==
  /\ Get(returned, K_status) = Get(raw, K_status)
  /\ Get(returned, K_threadContext) = Get(raw, K_threadContext)
  /\ Len(Get(returned, K_comments).e) = Len(Get(raw, K_comments).e)
  /\ \A k \in 1..Len(Get(raw, K_comments).e) :
        CommentReturned(Get(raw, K_comments).e[k], Get(returned, K_comments).e[k])

\* The response holds the threads of the parsed output, scores normalized
ThreadsReturned(parsed, response) ==
  /\ Len(response.threads) = Len(ThreadsArrayOf(parsed))
  /\ \A i \in 1..Len(ThreadsArrayOf(parsed)) :
        ThreadReturned(ThreadsArrayOf(parsed)[i], response.threads[i])

IsShapeDiagnostic(response, request) ==
  response = diagnosticThread(request.filePath, "BUG", InvalidShapeContent)

IsParseDiagnostic(response, request, content) ==
  response = diagnosticThread(request.filePath, "BUG", ParseErrorContent(ChoiceOf(content)))

(***************************************************************************)
(* C26 as stated: for a parsed output of the model, the client returns the *)
(* shape diagnostic exactly when the output has no threads array or has a  *)
(* thread without a location (threadContext with a file path) or without a *)
(* comments array; an output whose threads is an array of threads that     *)
(* each have a location and a comments array is accepted: its threads are  *)
(* returned with the confidences normalized.                               *)
(***************************************************************************)
C26_ShapeValidation ==
  ReturnedParsed =>
    /\ IsShapeDiagnostic(client.response, Val(client.request))
         <=> ~LocatedThreadsWithComments(ParsedOf(client.content).v)
    /\ LocatedThreadsWithComments(ParsedOf(client.content).v)
         => ThreadsReturned(ParsedOf(client.content).v, client.response)

\* C26 amended: for a parsed output of the model, the client returns the
\* shape diagnostic exactly when the output has no threads array or has a
\* thread without a status that is a number, without a location
\* (threadContext with a non-empty file path) or without a comments array;
\* an output that passes is accepted and its threads are returned with the
\* confidences normalized when every comment is an object, and is replaced
\* by the parse-error diagnostic when a comment is not (the normalization
\* raises).
C26_ShapeValidationWithStatus ==
  ReturnedParsed =>
    /\ IsShapeDiagnostic(client.response, Val(client.request))
         <=> ~LocatedThreadsWithStatusAndComments(ParsedOf(client.content).v)
    /\ (LocatedThreadsWithStatusAndComments(ParsedOf(client.content).v)
          /\ EveryCommentIsObject(ParsedOf(client.content).v))
         => ThreadsReturned(ParsedOf(client.content).v, client.response)
    /\ (LocatedThreadsWithStatusAndComments(ParsedOf(client.content).v)
          /\ ~EveryCommentIsObject(ParsedOf(client.content).v))
         => IsParseDiagnostic(client.response, Val(client.request), client.content)

\* An output with one thread that has a location and a comments array but
\* no status: the shape diagnostic is returned
C26_Witness ==
  /\ ReturnedParsed
  /\ client.content = Some(Out_NoStatus)
  /\ LocatedThreadsWithComments(ParsedOf(client.content).v)
  /\ IsShapeDiagnostic(client.response, Val(client.request))

\* An output of two threads with five scored comments is accepted
C26_WitnessAccepted ==
  /\ ReturnedParsed
  /\ client.content = Some(Out_Scores2)
  /\ ThreadsReturned(ParsedOf(client.content).v, client.response)
  /\ ~IsShapeDiagnostic(client.response, Val(client.request))

\* The comment generated at origin o, and the signature of its finding
CommentAt(o) == ResponseComments(stub[o[1]])[o[2]]

SignatureAt(o) ==
  buildFindingSignature(Some(normalizePath(Val(input.files)[o[1]].path)), CommentAt(o).content)

\* A finding of the report kept before origin o has the signature of o
KeptEarlier(o) ==
  \E g \in Range(Val(report).findings) : Before(g.origin, o) /\ g.id = SignatureAt(o)

\* A finding generated before origin o with its signature was moved to
\* filteredOut by the confidence filter
FilteredEarlier(o) ==
  \E p \in OriginsUpTo(Len(stub)) :
    /\ Before(p, o)
    /\ ~PassesPolicy(CommentAt(p))
    /\ SignatureAt(p) = SignatureAt(o)

(***************************************************************************)
(* C27: in a completed run every finding of report.findings has a          *)
(* non-empty id and every finding of report.filteredOut the empty id; the  *)
(* signatures registered are those of the kept findings only, so a finding *)
(* that passes the confidence filter is in report.findings unless its      *)
(* signature is that of a previous comment or of a finding kept before it, *)
(* also when a finding with the same file path and trimmed content was     *)
(* moved to filteredOut by the confidence filter before it.                *)
(***************************************************************************)
C27_FilteredFindingsRegisterNothing ==
  Completed =>
    /\ \A f \in Range(Val(report).findings) : Len(f.id) > 0
    /\ \A f \in Range(Val(report).filteredOut) : f.id = <<>>
    /\ seenSignatures = {f.id : f \in Range(Val(report).findings)}
    /\ \A o \in OriginsUpTo(Len(stub)) :
         PassesPolicy(CommentAt(o)) =>
           (o \in OriginsIn(Val(report).findings)
              <=> ~(SignatureAt(o) \in PreviousSignatures \/ KeptEarlier(o)))

\* A completed run in which a finding is kept although a finding of the
\* same file with the same content was filtered by confidence before it
C27_Witness ==
  /\ Completed
  /\ input.policy.confidence.enabled
  /\ \E o \in OriginsIn(Val(report).findings) :
       /\ FilteredEarlier(o)
       /\ ~KeptEarlier(o)
  /\ \E f \in Range(Val(report).filteredOut) : ~BelowMinimum(f)

\* The exclusion list sent with the call for file k
ExclusionListOf(k) == calls[k].existingComments

(***************************************************************************)
(* C28: at every moment of a run, the exclusion list that was sent with    *)
(* the call for file k is the content of the previous comments whose path  *)
(* matches file k, followed either by nothing or by the content of the     *)
(* comments generated for the files 1..k-1, the latter only with the latch *)
(* set; it holds no entry for a comment of file k or of a later file, and  *)
(* for the first file it is exactly that file's previous comments under    *)
(* every policy.                                                           *)
(***************************************************************************)
C28_ExclusionListContent ==
  (IsDefined(input.files) /\ pc # "idle") =>
    /\ \A k \in 1..Len(calls) :
         /\ \/ ExclusionListOf(k) = PreviousContentFor(k)
            \/ /\ ExclusionListOf(k)
                    = PreviousContentFor(k) \o ContentOf(GeneratedUpTo(k - 1))
               /\ input.policy.dedupeAcrossFiles.enabled
               /\ (k = Len(calls) /\ pc = "await") => dedupeCriteriaMet
         /\ Len(ExclusionListOf(k))
              <= Len(PreviousContentFor(k)) + Len(GeneratedUpTo(k - 1))
    /\ Len(calls) >= 1 => ExclusionListOf(1) = PreviousContentFor(1)

\* A completed run of three files with cross-file dedup: the first list is
\* the previous comment of the first file, the second list is empty (the
\* previous comment is of another path, the latch was not set), the third
\* holds the previous comment and the comments of the files 1 and 2, and
\* the third file produced comments too
C28_Witness ==
  /\ Completed
  /\ Len(calls) = 3
  /\ input.policy.dedupeAcrossFiles.enabled
  /\ input.policy.dedupeAcrossFiles.threshold = 1
  /\ PreviousContentFor(1) # <<>>
  /\ ExclusionListOf(1) = PreviousContentFor(1)
  /\ GeneratedUpTo(1) # <<>>
  /\ ExclusionListOf(2) = <<>>
  /\ ExclusionListOf(3) = PreviousContentFor(3) \o ContentOf(GeneratedUpTo(2))
  /\ Len(GeneratedUpTo(3)) > Len(GeneratedUpTo(2))

\* The review call of the run failed, or the post of one of its threads
FailedInReviewOrPublish == task.rejected \/ task.failedAt # 0

C29_WitnessNextRun ==
  /\ task.runs = 2
  /\ task.prior.result = "Failed" /\ task.prior.decided
  /\ task.pc = "publish"
  /\ task.reviewRange = IterationRange(1, 2)
  /\ task.prior.reviewRange = IterationRange(1, 2)

\* The runs began on a pull request without marker
FromAbsentMarker == task.pc # "off" /\ task.initialMarker = NoMarker

Ordered(range) == range.start <= range.end

\* Range `next` was stored after range `range`: it is the same range (a
\* requeue that was reviewed again) or it goes on from the end of `range`
FollowsOn(range, next) ==
  \/ next = range
  \/ next.start = range.end /\ next.end > range.end

(***************************************************************************)
(* C30: in every sequence of runs on a pull request that had no marker,    *)
(* with a latest iteration id that never decreases, every computed range   *)
(* and every stored marker has start <= end; the ranges stored begin at 0, *)
(* each is the one before it or begins at its end and ends later, so the   *)
(* end of the marker never decreases and no interval is left out; the      *)
(* marker is the range stored last; and a run that is no requeue reviews   *)
(* the range that begins at the end of the marker it read.                 *)
(***************************************************************************)
C30_RangesContiguous ==
  FromAbsentMarker =>
    /\ task.decided => Ordered(task.reviewRange)
    /\ Ordered(getLastReviewedIteration(task.marker))
    /\ \A i \in 1..Len(task.savedRanges) : Ordered(task.savedRanges[i])
    /\ Len(task.savedRanges) > 0 => task.savedRanges[1].start = 0
    /\ \A i \in 1..(Len(task.savedRanges) - 1) :
         FollowsOn(task.savedRanges[i], task.savedRanges[i + 1])
    /\ task.marker = IF Len(task.savedRanges) = 0 THEN NoMarker
                     ELSE StoredRange(task.savedRanges[Len(task.savedRanges)])
    /\ (task.decided /\ ~task.isRequeued) =>
         /\ task.reviewRange.start = StoredMarker.end
         /\ task.reviewRange.end = task.latestRead
         /\ task.reviewRange.end > StoredMarker.end

\* Three runs with a push before the second and the third have stored
\* {0, 1}, {1, 2} and {2, 3}
C30_Witness ==
  /\ FromAbsentMarker
  /\ task.pc = "ended" /\ task.runs = 3
  /\ task.savedRanges = <<IterationRange(0, 1), IterationRange(1, 2), IterationRange(2, 3)>>
  /\ task.marker = StoredRange(IterationRange(2, 3))

====
